---- MODULE Spec2Model ----
(***************************************************************************)
(* A model of the reconciliation core of OMO-Switch (src/src-tauri/src):   *)
(* the canonical configuration document and its .bak sibling, the backup   *)
(* directory with its retention limit, the preset store, and the pure diff *)
(* and merge functions.                                                    *)
(*                                                                         *)
(* The file system is one map from canonical paths to files.  A file's     *)
(* text is a sequence of JSON tokens (token level, not character level:    *)
(* white space and escapes are not modelled), so writing a document and    *)
(* reading it back goes through to_string_pretty and from_str, two         *)
(* different functions.  Symbolic links are not modelled.                  *)
(***************************************************************************)
EXTENDS Integers, Sequences, FiniteSets, TLC

VARIABLES
    fs,          \* the file system: canonical path -> [text, created]
    clock,       \* the system clock, in milliseconds
    ret,         \* the last operation called, its arguments and its result
    old_config,  \* first argument of the pure functions
    new_config,  \* second argument of the pure functions
    changes,     \* result of compare_configs(old_config, new_config)
    merged,      \* result of merge_configs(old_config, new_config)
    calls        \* the commands in progress: caller -> its position and what it holds

vars == <<fs, clock, ret, old_config, new_config, changes, merged, calls>>

\* What a command that runs in one step leaves alone.
pureVars == <<old_config, new_config, changes, merged, calls>>

-----------------------------------------------------------------------------
(* serde_json::Value.  Every value is a record of the same shape, so that  *)
(* any two values can be compared.                                         *)

EmptyMap == [k \in {} |-> 0]

Null == [kind |-> "Null", b |-> FALSE, n |-> 0, s |-> "", items |-> <<>>, fields |-> EmptyMap]

Bool(b) == [kind |-> "Bool", b |-> b, n |-> 0, s |-> "", items |-> <<>>, fields |-> EmptyMap]

\* An integer number (N::PosInt, N::NegInt).
Number(n) == [kind |-> "Number", b |-> FALSE, n |-> n, s |-> "int", items |-> <<>>, fields |-> EmptyMap]

\* A float with an integral value n (N::Float), printed "n.0"; it is not equal to Number(n).
Float(n) == [kind |-> "Number", b |-> FALSE, n |-> n, s |-> "float", items |-> <<>>, fields |-> EmptyMap]

String(s) == [kind |-> "String", b |-> FALSE, n |-> 0, s |-> s, items |-> <<>>, fields |-> EmptyMap]

Array(items) == [kind |-> "Array", b |-> FALSE, n |-> 0, s |-> "", items |-> items, fields |-> EmptyMap]

Object(fields) == [kind |-> "Object", b |-> FALSE, n |-> 0, s |-> "", items |-> <<>>, fields |-> fields]

is_object(v) == v.kind = "Object"

is_array(v) == v.kind = "Array"

contains_key(v, key) == key \in DOMAIN v.fields

\* Map::insert: the key's value is replaced, or the key is added.
insert(fields, key, value) ==
    [k \in DOMAIN fields \cup {key} |-> IF k = key THEN value ELSE fields[k]]

\* Map::remove.
remove(fields, key) == [k \in DOMAIN fields \ {key} |-> fields[k]]

\* Option<T>: None is the empty sequence, Some(x) the sequence of x alone.
None == <<>>

Some(x) == <<x>>

-----------------------------------------------------------------------------
(* JSON text: a sequence of tokens.                                        *)

Punct(c) == [n |-> 0, s |-> c, t |-> "punct"]

Literal(w) == [n |-> 0, s |-> w, t |-> "literal"]

NumberToken(n, form) == [n |-> n, s |-> form, t |-> "number"]

StringToken(s) == [n |-> 0, s |-> s, t |-> "string"]

RECURSIVE to_string_pretty(_)
RECURSIVE serialize_seq(_)
RECURSIVE serialize_map(_, _)

\* serde_json::to_string_pretty: the tokens of a value, object members in the map's
\* iteration order.
to_string_pretty(v) ==
    CASE v.kind = "Null" -> <<Literal("null")>>
      [] v.kind = "Bool" -> <<Literal(IF v.b THEN "true" ELSE "false")>>
      [] v.kind = "Number" -> <<NumberToken(v.n, v.s)>>
      [] v.kind = "String" -> <<StringToken(v.s)>>
      [] v.kind = "Array" -> <<Punct("[")>> \o serialize_seq(v.items) \o <<Punct("]")>>
      [] v.kind = "Object" ->
            <<Punct("{")>> \o serialize_map(v.fields, DOMAIN v.fields) \o <<Punct("}")>>

serialize_seq(items) ==
    IF items = <<>> THEN <<>>
    ELSE IF Len(items) = 1 THEN to_string_pretty(items[1])
    ELSE to_string_pretty(items[1]) \o <<Punct(",")>> \o serialize_seq(Tail(items))

serialize_map(fields, keys) ==
    IF keys = {} THEN <<>>
    ELSE LET key == CHOOSE k \in keys : TRUE
             member == <<StringToken(key), Punct(":")>> \o to_string_pretty(fields[key])
         IN  member \o (IF keys = {key} THEN <<>>
                        ELSE <<Punct(",")>> \o serialize_map(fields, keys \ {key}))

ParseFail == [ok |-> FALSE, value |-> Null, next |-> 0]

ParseOk(value, next) == [ok |-> TRUE, value |-> value, next |-> next]

RECURSIVE parse_value(_, _)
RECURSIVE parse_elements(_, _, _)
RECURSIVE parse_members(_, _, _)

\* One JSON value starting at token i; next is the position after it.
parse_value(text, i) ==
    IF i > Len(text) THEN ParseFail
    ELSE LET tok == text[i] IN
         CASE tok.t = "literal" /\ tok.s = "null" -> ParseOk(Null, i + 1)
           [] tok.t = "literal" /\ tok.s = "true" -> ParseOk(Bool(TRUE), i + 1)
           [] tok.t = "literal" /\ tok.s = "false" -> ParseOk(Bool(FALSE), i + 1)
           [] tok.t = "number" /\ tok.s = "int" -> ParseOk(Number(tok.n), i + 1)
           [] tok.t = "number" /\ tok.s = "float" -> ParseOk(Float(tok.n), i + 1)
           [] tok.t = "string" -> ParseOk(String(tok.s), i + 1)
           [] tok = Punct("[") ->
                IF i + 1 <= Len(text) /\ text[i + 1] = Punct("]")
                THEN ParseOk(Array(<<>>), i + 2)
                ELSE parse_elements(text, i + 1, <<>>)
           [] tok = Punct("{") ->
                IF i + 1 <= Len(text) /\ text[i + 1] = Punct("}")
                THEN ParseOk(Object(EmptyMap), i + 2)
                ELSE parse_members(text, i + 1, EmptyMap)
           [] OTHER -> ParseFail

parse_elements(text, i, acc) ==
    LET after(r) ==
            IF ~r.ok \/ r.next > Len(text) THEN ParseFail
            ELSE IF text[r.next] = Punct(",")
                 THEN parse_elements(text, r.next + 1, Append(acc, r.value))
                 ELSE IF text[r.next] = Punct("]")
                      THEN ParseOk(Array(Append(acc, r.value)), r.next + 1)
                      ELSE ParseFail
    IN  after(parse_value(text, i))

\* The members of an object; a repeated key keeps its last value.
parse_members(text, i, acc) ==
    IF i + 1 > Len(text) \/ text[i].t # "string" \/ text[i + 1] # Punct(":") THEN ParseFail
    ELSE LET after(r) ==
                 IF ~r.ok \/ r.next > Len(text) THEN ParseFail
                 ELSE IF text[r.next] = Punct(",")
                      THEN parse_members(text, r.next + 1, insert(acc, text[i].s, r.value))
                      ELSE IF text[r.next] = Punct("}")
                           THEN ParseOk(Object(insert(acc, text[i].s, r.value)), r.next + 1)
                           ELSE ParseFail
         IN  after(parse_value(text, i + 2))

\* serde_json::from_str: the whole text must be one value.
from_str(text) ==
    LET whole(r) ==
            IF r.ok /\ r.next = Len(text) + 1 THEN [ok |-> TRUE, value |-> r.value]
            ELSE [ok |-> FALSE, value |-> Null]
    IN  whole(parse_value(text, 1))

-----------------------------------------------------------------------------
(* Paths and the file system.  A path is a directory (a sequence of        *)
(* components) and a file name.  A file name "<head><tail>.<ext>" is kept  *)
(* in three parts: head is the name up to and including its first '_' (the *)
(* whole stem when it has none), tail the rest of the stem.                *)

Name(head, tail, ext) == [head |-> head, tail |-> tail, ext |-> ext]

PathOf(dir, name) == [dir |-> dir, name |-> name]

NoPath == PathOf(<<>>, Name("", "", ""))

\* $HOME/.config/opencode
ConfigDir == <<"home", ".config", "opencode">>

\* $HOME/.config/opencode/backups
BackupDir == <<"home", ".config", "opencode", "backups">>

\* $HOME/.config/OMO-Switch
SwitchDir == <<"home", ".config", "OMO-Switch">>

\* $HOME/.config/opencode/oh-my-opencode.json
get_config_path == PathOf(ConfigDir, Name("oh-my-opencode", "", "json"))

\* PathBuf::with_extension
with_extension(path, ext) == [path EXCEPT !.name.ext = ext]

\* The .bak sibling of the canonical file.
BakPath == with_extension(get_config_path, "json.bak")

\* Path::exists
exists(f, path) == path \in DOMAIN f

\* fs::read_to_string
read_to_string(f, path) == f[path].text

\* fs::write: the text is replaced; a new file is created at the current time.
write(f, path, text) ==
    IF path \in DOMAIN f THEN [f EXCEPT ![path].text = text]
    ELSE (path :> [text |-> text, created |-> clock]) @@ f

\* fs::copy
copy(f, from, to) == write(f, to, f[from].text)

\* fs::remove_file
remove_file(f, path) == [q \in DOMAIN f \ {path} |-> f[q]]

\* What the environment decides during a call: whether fs::copy succeeds.
IoOutcomes == [copy_ok : BOOLEAN]

IoFine == [copy_ok |-> TRUE]

-----------------------------------------------------------------------------
(* services/config_service.rs                                              *)

\* Result<Value, String>
OkValue(value) == [ok |-> TRUE, err |-> "", value |-> value]

ErrValue(err) == [ok |-> FALSE, err |-> err, value |-> Null]

\* Result<(), String> of an operation that writes files: fs is the file system it leaves.
OkFs(f) == [ok |-> TRUE, err |-> "", fs |-> f]

ErrFs(err, f) == [ok |-> FALSE, err |-> err, fs |-> f]

read_omo_config(f) ==
    IF ~exists(f, get_config_path) THEN ErrValue("config_file_not_found")
    ELSE LET config_of(parsed) ==
                 IF ~parsed.ok THEN ErrValue("parse_json_failed")
                 ELSE OkValue(parsed.value)
         IN  config_of(from_str(read_to_string(f, get_config_path)))

\* A write through a typed struct of the two known fields: unknown keys are lost.
write_omo_config_typed(f, config, io) ==
    IF exists(f, get_config_path) /\ ~io.copy_ok THEN ErrFs("create_backup_failed", f)
    ELSE LET backed == IF exists(f, get_config_path)
                       THEN copy(f, get_config_path, BakPath)
                       ELSE f
             known == Object([k \in DOMAIN config.fields \cap {"agents", "categories"} |->
                                 config.fields[k]])
         IN  OkFs(write(backed, get_config_path, to_string_pretty(known)))

\* The .bak copy taken after the canonical file is overwritten, and its failure ignored.
write_omo_config_copy_after(f, config, io) ==
    LET written == write(f, get_config_path, to_string_pretty(config)) IN
    OkFs(IF exists(f, get_config_path) /\ io.copy_ok
         THEN copy(written, get_config_path, BakPath)
         ELSE written)

write_omo_config(f, config, io) ==
    IF exists(f, get_config_path) /\ ~io.copy_ok THEN ErrFs("create_backup_failed", f)
    ELSE LET backed == IF exists(f, get_config_path)
                       THEN copy(f, get_config_path, BakPath)
                       ELSE f
         IN  OkFs(write(backed, get_config_path, to_string_pretty(config)))

\* The types of the two fields checked before 'categories' is looked for.
validate_config_types_first(config) ==
    IF ~is_object(config) THEN ErrValue("config_root_must_be_object")
    ELSE IF ~contains_key(config, "agents") THEN ErrValue("config_missing_agents")
    ELSE IF ~is_object(config.fields["agents"]) THEN ErrValue("'agents' must be an object")
    ELSE IF ~contains_key(config, "categories") THEN ErrValue("config_missing_categories")
    ELSE IF ~is_object(config.fields["categories"]) THEN ErrValue("'categories' must be an object")
    ELSE OkValue(Null)

validate_config(config) ==
    IF ~is_object(config) THEN ErrValue("config_root_must_be_object")
    ELSE IF ~contains_key(config, "agents") THEN ErrValue("config_missing_agents")
    ELSE IF ~contains_key(config, "categories") THEN ErrValue("config_missing_categories")
    ELSE IF ~is_object(config.fields["agents"]) THEN ErrValue("'agents' must be an object")
    ELSE IF ~is_object(config.fields["categories"]) THEN ErrValue("'categories' must be an object")
    ELSE OkValue(Null)

-----------------------------------------------------------------------------
(* services/config_cache_service.rs: the diff and the merge.               *)

ConfigChange(path, change_type, old_value, new_value) ==
    [path |-> path, change_type |-> change_type,
     old_value |-> old_value, new_value |-> new_value]

RECURSIVE compare_values(_, _, _)
RECURSIVE compare_all_keys(_, _, _, _)
RECURSIVE compare_items(_, _, _, _)
RECURSIVE merge_configs(_, _)
RECURSIVE merge_entries(_, _, _)

\* The path of the member key of the object at path.
key_path(path, key) == IF path = "" THEN key ELSE path \o "." \o key

\* The path of the item at index i (from 0) of the array at path.
index_path(path, i) == path \o "[" \o ToString(i) \o "]"

\* compare_key reporting a key that only the new object has member by member.
compare_key_per_member(old_obj, new_obj, key, path) ==
    LET new_path == key_path(path, key) IN
    IF key \in DOMAIN old_obj /\ key \in DOMAIN new_obj
    THEN compare_values(old_obj[key], new_obj[key], new_path)
    ELSE IF key \in DOMAIN old_obj
    THEN <<ConfigChange(new_path, "removed", Some(old_obj[key]), None)>>
    ELSE IF key \in DOMAIN new_obj
    THEN IF is_object(new_obj[key])
         THEN compare_values(Object(EmptyMap), new_obj[key], new_path)
         ELSE <<ConfigChange(new_path, "added", None, Some(new_obj[key]))>>
    ELSE <<>>

\* A key that only the old object has reported as "added".
compare_key_mislabelled(old_obj, new_obj, key, path) ==
    LET new_path == key_path(path, key) IN
    IF key \in DOMAIN old_obj /\ key \in DOMAIN new_obj
    THEN compare_values(old_obj[key], new_obj[key], new_path)
    ELSE IF key \in DOMAIN old_obj
    THEN <<ConfigChange(new_path, "added", Some(old_obj[key]), None)>>
    ELSE IF key \in DOMAIN new_obj
    THEN <<ConfigChange(new_path, "added", None, Some(new_obj[key]))>>
    ELSE <<>>

\* One key of the union of the two objects' keys.
compare_key(old_obj, new_obj, key, path) ==
    LET new_path == key_path(path, key) IN
    IF key \in DOMAIN old_obj /\ key \in DOMAIN new_obj
    THEN compare_values(old_obj[key], new_obj[key], new_path)
    ELSE IF key \in DOMAIN old_obj
    THEN <<ConfigChange(new_path, "removed", Some(old_obj[key]), None)>>
    ELSE IF key \in DOMAIN new_obj
    THEN <<ConfigChange(new_path, "added", None, Some(new_obj[key]))>>
    ELSE <<>>

\* The loop over the keys of the old object only.
compare_all_keys_of_old(old_obj, new_obj, all_keys, path) ==
    LET keys == all_keys \cap DOMAIN old_obj IN
    IF keys = {} THEN <<>>
    ELSE LET key == CHOOSE k \in keys : TRUE IN
         compare_key(old_obj, new_obj, key, path)
             \o compare_all_keys(old_obj, new_obj, keys \ {key}, path)

\* The loop over all_keys, a HashSet: the order of the keys is not specified.
compare_all_keys(old_obj, new_obj, all_keys, path) ==
    IF all_keys = {} THEN <<>>
    ELSE LET key == CHOOSE k \in all_keys : TRUE IN
         compare_key(old_obj, new_obj, key, path)
             \o compare_all_keys(old_obj, new_obj, all_keys \ {key}, path)

\* The loop over two arrays of the same length, from the item at position k (from 1).
compare_items(old_arr, new_arr, k, path) ==
    IF k > Len(old_arr) THEN <<>>
    ELSE compare_values(old_arr[k], new_arr[k], index_path(path, k - 1))
             \o compare_items(old_arr, new_arr, k + 1, path)

\* compare_values reporting two arrays of different lengths index by index.
compare_values_per_index(old_val, new_val, path) ==
    IF old_val = new_val THEN <<>>
    ELSE IF is_object(old_val) /\ is_object(new_val)
    THEN compare_all_keys(old_val.fields, new_val.fields,
                          DOMAIN old_val.fields \cup DOMAIN new_val.fields, path)
    ELSE IF is_array(old_val) /\ is_array(new_val)
    THEN IF Len(old_val.items) # Len(new_val.items)
         THEN LET longer == IF Len(old_val.items) > Len(new_val.items)
                            THEN Len(old_val.items) ELSE Len(new_val.items)
              IN  [i \in 1..longer |->
                      ConfigChange(index_path(path, i - 1), "modified",
                                   Some(old_val), Some(new_val))]
         ELSE compare_items(old_val.items, new_val.items, 1, path)
    ELSE <<ConfigChange(path, "modified", Some(old_val), Some(new_val))>>

\* compare_values without its first test, old_val == new_val.
compare_values_unguarded(old_val, new_val, path) ==
    IF is_object(old_val) /\ is_object(new_val)
    THEN compare_all_keys(old_val.fields, new_val.fields,
                          DOMAIN old_val.fields \cup DOMAIN new_val.fields, path)
    ELSE IF is_array(old_val) /\ is_array(new_val)
    THEN IF Len(old_val.items) # Len(new_val.items)
         THEN <<ConfigChange(path, "modified", Some(old_val), Some(new_val))>>
         ELSE compare_items(old_val.items, new_val.items, 1, path)
    ELSE <<ConfigChange(path, "modified", Some(old_val), Some(new_val))>>

\* The changes compare_values pushes, in the order it pushes them.
compare_values(old_val, new_val, path) ==
    IF old_val = new_val THEN <<>>
    ELSE IF is_object(old_val) /\ is_object(new_val)
    THEN compare_all_keys(old_val.fields, new_val.fields,
                          DOMAIN old_val.fields \cup DOMAIN new_val.fields, path)
    ELSE IF is_array(old_val) /\ is_array(new_val)
    THEN IF Len(old_val.items) # Len(new_val.items)
         THEN <<ConfigChange(path, "modified", Some(old_val), Some(new_val))>>
         ELSE compare_items(old_val.items, new_val.items, 1, path)
    ELSE <<ConfigChange(path, "modified", Some(old_val), Some(new_val))>>

compare_configs(old, new) == compare_values(old, new, "")

\* The loop over new_obj with every key of new_obj inserted as it is.
merge_entries_shallow(merged_obj, new_obj, keys) ==
    IF keys = {} THEN merged_obj
    ELSE LET key == CHOOSE k \in keys : TRUE IN
         merge_entries(insert(merged_obj, key, new_obj[key]), new_obj, keys \ {key})

\* The loop over new_obj: merged starts as a copy of old_obj.
merge_entries(merged_obj, new_obj, keys) ==
    IF keys = {} THEN merged_obj
    ELSE LET key == CHOOSE k \in keys : TRUE IN
         merge_entries(
             IF key \in DOMAIN merged_obj
             THEN insert(merged_obj, key, merge_configs(merged_obj[key], new_obj[key]))
             ELSE insert(merged_obj, key, new_obj[key]),
             new_obj, keys \ {key})

\* A merge that joins two arrays instead of taking the new one.
merge_configs_concat(old, new) ==
    IF is_object(old) /\ is_object(new)
    THEN Object(merge_entries(old.fields, new.fields, DOMAIN new.fields))
    ELSE IF is_array(old) /\ is_array(new)
    THEN Array(old.items \o new.items)
    ELSE new

\* A merge that keeps the old value where the two are not both objects.
merge_configs_keeping_old(old, new) ==
    IF is_object(old) /\ is_object(new)
    THEN Object(merge_entries(old.fields, new.fields, DOMAIN new.fields))
    ELSE old

merge_configs(old, new) ==
    IF is_object(old) /\ is_object(new)
    THEN Object(merge_entries(old.fields, new.fields, DOMAIN new.fields))
    ELSE new

-----------------------------------------------------------------------------
(* The documents and texts the model's inputs are drawn from.              *)

Model(m) == Object("model" :> String(m))

\* A valid document with an unknown key holding a nested subtree.
DocA ==
    Object(("agents" :> Object("sisyphus" :> Model("gpt")))
           @@ ("categories" :> Object("quick" :> Model("gpt")))
           @@ ("nested" :> Object("deep" :> Object("value" :> Number(123)))))

\* A valid document with every kind of value.
DocB ==
    Object(("agents" :> Object("oracle" :> Object(("model" :> String("claude"))
                                                    @@ ("variant" :> String("high")))))
           @@ ("categories" :> Object(EmptyMap))
           @@ ("list" :> Array(<<Number(1), Float(1), Bool(TRUE), Null>>)))

\* The smallest valid document.
DocEmpty == Object(("agents" :> Object(EmptyMap)) @@ ("categories" :> Object(EmptyMap)))

\* 'categories' is missing.
DocNoCategories == Object("agents" :> Object(EmptyMap))

\* The root is not an object.
DocArray == Array(<<>>)

InputDocs == {DocA, DocB, DocEmpty, DocNoCategories, DocArray}

\* A text that is no JSON value: "{" alone.
CorruptText == <<Punct("{")>>

\* What an external tool may leave in the canonical file.
ExternalTexts == {to_string_pretty(d) : d \in InputDocs} \cup {CorruptText}

-----------------------------------------------------------------------------
(* The last call and its result.                                           *)

Ret(op, ok, err, value, io) ==
    [op |-> op, ok |-> ok, err |-> err, value |-> value, io |-> io,
     num |-> 0, path |-> NoPath, target |-> NoPath, list |-> <<>>,
     name |-> <<>>, updates |-> <<>>, removed |-> 0]

NoRet == Ret("", TRUE, "", Null, IoFine)

\* The callers whose commands may be in progress at once: two running instances of
\* the program (nothing keeps a second one from starting).
Callers == {1, 2}

\* A caller's position in update_agent_model: "idle", or "read" after read_omo_config
\* with the document read in config; its arguments; and what its last call returned.
Call(pc, agent_name, model, variant, config, returned) ==
    [pc |-> pc, agent_name |-> agent_name, model |-> model, variant |-> variant,
     config |-> config, returned |-> returned]

NoCalls == [c \in Callers |-> Call("idle", "", "", None, Null, None)]

\* The largest clock value the model reaches.
MaxClock == 2

EmptyFs == [p \in {} |-> 0]

\* The canonical file holds a valid document, written at time 0.
Init ==
    /\ fs = (get_config_path :> [text |-> to_string_pretty(DocEmpty), created |-> 0])
    /\ clock = 1
    /\ ret = NoRet
    /\ old_config = Null
    /\ new_config = Null
    /\ changes = <<>>
    /\ merged = Null
    /\ calls = NoCalls

\* Time passes.
Tick ==
    /\ clock < MaxClock
    /\ clock' = clock + 1
    /\ ret' = Ret("tick", TRUE, "", Null, IoFine)
    /\ UNCHANGED <<fs, pureVars>>

\* An external tool rewrites the canonical file, with a text of texts.
ExternalEditOf(texts) ==
    /\ \E text \in texts :
          fs' = write(fs, get_config_path, text)
    /\ ret' = Ret("external_edit", TRUE, "", Null, IoFine)
    /\ UNCHANGED <<clock, pureVars>>

ExternalEdit == ExternalEditOf(ExternalTexts)

\* An external tool deletes the canonical file.
ExternalDelete ==
    /\ exists(fs, get_config_path)
    /\ fs' = remove_file(fs, get_config_path)
    /\ ret' = Ret("external_delete", TRUE, "", Null, IoFine)
    /\ UNCHANGED <<clock, pureVars>>

\* commands/config_commands.rs: read_omo_config
ReadOmoConfig ==
    /\ LET r == read_omo_config(fs) IN
       ret' = Ret("read_omo_config", r.ok, r.err, r.value, IoFine)
    /\ UNCHANGED <<fs, clock, pureVars>>

\* commands/config_commands.rs: write_omo_config (validate, then write), with a
\* document of docs
WriteOmoConfigOf(docs) ==
    /\ \E config \in docs, io \in IoOutcomes :
          LET v == validate_config(config)
              w == write_omo_config(fs, config, io)
          IN  IF ~v.ok
              THEN /\ fs' = fs
                   /\ ret' = Ret("write_omo_config", FALSE, v.err, config, io)
              ELSE /\ fs' = w.fs
                   /\ ret' = Ret("write_omo_config", w.ok, w.err, config, io)
    /\ UNCHANGED <<clock, pureVars>>

WriteOmoConfig == WriteOmoConfigOf(InputDocs)

DocNext == Tick \/ ExternalEdit \/ ExternalDelete \/ ReadOmoConfig \/ WriteOmoConfig

\* The document store alone.
SpecDoc == Init /\ [][DocNext]_vars

-----------------------------------------------------------------------------
(* The pure functions, applied to every pair of the documents below.       *)

\* The longest array among the generated documents.
MaxArrayLen == 2

Scalars == {Number(1), Number(2)}

Arrays == {Array(items) : items \in UNION {[1..k -> Scalars] : k \in 0..MaxArrayLen}}

\* The maps from a subset of the keys a, b to the given values.
MapsTo(values) == UNION {[keys -> values] : keys \in SUBSET {"a", "b"}}

FlatObjects == {Object(fields) : fields \in MapsTo(Scalars)}

Members ==
    {Number(1), Array(<<Number(1)>>), Array(<<Number(1), Number(2)>>), Object(EmptyMap),
     Object("a" :> Number(1)), Object("a" :> Number(2)),
     Object(("a" :> Number(1)) @@ ("b" :> Number(2)))}

NestedObjects == {Object(fields) : fields \in MapsTo(Members)}

\* Documents of the module's tests and of its callers: a document whose two trees are
\* no objects, an agent added, an array shortened, two overlapping objects, and arrays
\* that hold arrays and objects.
ScenarioDocs ==
    {Object(("agents" :> Number(1)) @@ ("categories" :> Array(<<>>))),
     Object("agents" :> Object("x" :> Object(EmptyMap))),
     Object("agents" :> Object(("x" :> Object(EmptyMap)) @@ ("y" :> Model("gpt")))),
     Object("a" :> Array(<<Number(1), Number(2), Number(3)>>)),
     Object("a" :> Array(<<Number(2), Number(1)>>)),
     Object(("b" :> Number(3)) @@ ("c" :> Number(4))),
     Array(<<Array(<<Number(1)>>), Object("a" :> Number(1))>>),
     Array(<<Array(<<Number(1), Number(2)>>), Object("b" :> Number(1))>>)}

PureDocs ==
    Scalars \cup Arrays \cup FlatObjects \cup NestedObjects \cup InputDocs \cup ScenarioDocs

PureInit ==
    /\ fs = EmptyFs
    /\ clock = 1
    /\ ret = NoRet
    /\ old_config \in PureDocs
    /\ new_config \in PureDocs
    /\ changes = <<>>
    /\ merged = Null
    /\ calls = NoCalls

\* compare_configs(old_config, new_config) is called.
CompareConfigs ==
    /\ changes' = compare_configs(old_config, new_config)
    /\ ret' = Ret("compare_configs", TRUE, "", Null, IoFine)
    /\ UNCHANGED <<fs, clock, old_config, new_config, merged, calls>>

\* merge_configs(old_config, new_config) is called.
MergeConfigs ==
    /\ merged' = merge_configs(old_config, new_config)
    /\ ret' = Ret("merge_configs", TRUE, "", Null, IoFine)
    /\ UNCHANGED <<fs, clock, old_config, new_config, changes, calls>>

PureNext == CompareConfigs \/ MergeConfigs

SpecPure == PureInit /\ [][PureNext]_vars

-----------------------------------------------------------------------------
(* services/import_export_service.rs: the backup directory and its         *)
(* retention limit.  The directory itself exists throughout.  An operation *)
(* whose result depends on the order in which fs::read_dir yields the      *)
(* entries is a set of outcomes, one for each order.                       *)

DEFAULT_MAX_BACKUP_RECORDS == 10

MAX_BACKUP_RECORDS_UPPER == 500

\* usize::clamp(1, MAX_BACKUP_RECORDS_UPPER)
normalize_max_backup_records(value) ==
    IF value < 1 THEN 1
    ELSE IF value > MAX_BACKUP_RECORDS_UPPER THEN MAX_BACKUP_RECORDS_UPPER
    ELSE value

\* $HOME/.config/OMO-Switch/import-export-settings.json
get_settings_path == PathOf(SwitchDir, Name("import-export-settings", "", "json"))

\* The struct ImportExportSettings as serde writes it.
ImportExportSettings(max_backup_records) ==
    Object("max_backup_records" :> Number(max_backup_records))

\* max_backup_records: usize
is_usize(v) == v.kind = "Number" /\ v.s = "int" /\ v.n >= 0

\* serde_json::from_str::<ImportExportSettings>: Some(max_backup_records) for a map
\* with the key max_backup_records holding a usize, other keys ignored, or a sequence
\* of that one field; None for everything else.
ImportExportSettings_from_value(value) ==
    IF /\ is_object(value)
       /\ contains_key(value, "max_backup_records")
       /\ is_usize(value.fields["max_backup_records"])
    THEN Some(value.fields["max_backup_records"].n)
    ELSE IF is_array(value) /\ Len(value.items) = 1 /\ is_usize(value.items[1])
    THEN Some(value.items[1].n)
    ELSE None

\* load_settings that returns the stored number as it is.
load_settings_unclamped(f) ==
    IF ~exists(f, get_settings_path) THEN DEFAULT_MAX_BACKUP_RECORDS
    ELSE LET limit_of(settings) ==
                 IF settings = None THEN DEFAULT_MAX_BACKUP_RECORDS ELSE settings[1]
             settings_of(parsed) ==
                 IF ~parsed.ok THEN DEFAULT_MAX_BACKUP_RECORDS
                 ELSE limit_of(ImportExportSettings_from_value(parsed.value))
         IN  settings_of(from_str(read_to_string(f, get_settings_path)))

\* The limit load_settings returns: the default unless the file holds the settings.
load_settings(f) ==
    IF ~exists(f, get_settings_path) THEN DEFAULT_MAX_BACKUP_RECORDS
    ELSE LET limit_of(settings) ==
                 IF settings = None THEN DEFAULT_MAX_BACKUP_RECORDS
                 ELSE normalize_max_backup_records(settings[1])
             settings_of(parsed) ==
                 IF ~parsed.ok THEN DEFAULT_MAX_BACKUP_RECORDS
                 ELSE limit_of(ImportExportSettings_from_value(parsed.value))
         IN  settings_of(from_str(read_to_string(f, get_settings_path)))

save_settings(f, max_backup_records) ==
    write(f, get_settings_path,
          to_string_pretty(ImportExportSettings(
              normalize_max_backup_records(max_backup_records))))

\* The result of an operation of this service: the file system it leaves, and the
\* number or the path it returns.
Outcome(ok, err, f, num, path) ==
    [ok |-> ok, err |-> err, fs |-> f, num |-> num, path |-> path]

\* filename.starts_with("oh-my-opencode_") || filename.starts_with("export_")
is_managed(filename) == filename.head = "oh-my-opencode_" \/ filename.head = "export_"

\* The entries of a directory (not of its subdirectories).
read_dir(f, dir) == {p \in DOMAIN f : p.dir = dir}

\* The sequences without repetition of all the elements of entries in which the
\* timestamps (the second component) never increase: what sort_by leaves of the
\* entries read in some order, equal timestamps staying in the order read.
sort_by_ts_descending(entries) ==
    {result \in [1..Cardinality(entries) -> entries] :
        \A i, j \in 1..Cardinality(entries) :
            i < j => (result[i] # result[j] /\ result[i][2] >= result[j][2])}

\* The possible results of get_managed_backup_entries_with_ts: (path, ts) pairs.
get_managed_backup_entries_with_ts(f) ==
    sort_by_ts_descending(
        {<<p, f[p].created>> : p \in {q \in read_dir(f, BackupDir) :
                                         is_managed(q.name) /\ q.name.ext = "json"}})

\* The files of paths removed, one fs::remove_file each.
remove_files(f, paths) == [q \in DOMAIN f \ paths |-> f[q]]

\* A prune pass that removes from the newest end: the oldest files stay.
prune_backup_history_oldest_kept(f, limit) ==
    LET normalized_limit == normalize_max_backup_records(limit) IN
    {IF Len(entries) <= normalized_limit
     THEN Outcome(TRUE, "", f, 0, NoPath)
     ELSE Outcome(TRUE, "",
                  remove_files(f, {entries[i][1] : i \in 1..(Len(entries) - normalized_limit)}),
                  Len(entries) - normalized_limit, NoPath)
        : entries \in get_managed_backup_entries_with_ts(f)}

\* The possible outcomes of prune_backup_history_to_limit; num is the number deleted.
prune_backup_history_to_limit(f, limit) ==
    LET normalized_limit == normalize_max_backup_records(limit) IN
    {IF Len(entries) <= normalized_limit
     THEN Outcome(TRUE, "", f, 0, NoPath)
     ELSE Outcome(TRUE, "",
                  remove_files(f, {entries[i][1] : i \in (normalized_limit + 1)..Len(entries)}),
                  Len(entries) - normalized_limit, NoPath)
        : entries \in get_managed_backup_entries_with_ts(f)}

get_max_backup_records(f) == load_settings(f)

\* set_max_backup_records that saves the limit and prunes nothing.
set_max_backup_records_unpruned(f, limit) ==
    LET normalized == normalize_max_backup_records(limit) IN
    {Outcome(TRUE, "", save_settings(f, normalized), normalized, NoPath)}

\* The possible outcomes of set_max_backup_records; num is the limit it returns.
set_max_backup_records(f, limit) ==
    LET normalized == normalize_max_backup_records(limit) IN
    {Outcome(TRUE, "", pruned.fs, normalized, NoPath) :
        pruned \in prune_backup_history_to_limit(save_settings(f, normalized), normalized)}

\* now.format("%Y%m%d_%H%M%S_%3f"): the clock, to the millisecond, as text.
format_timestamp(now) == ToString(now)

RECURSIVE free_backup_path(_, _, _, _)

\* The loop run once: the name with suffix 1 is taken without a second look.
free_backup_path_once(f, prefix, timestamp, idx) ==
    LET backup_path ==
            PathOf(BackupDir,
                   Name(prefix \o "_",
                        IF idx = 0 THEN timestamp ELSE timestamp \o "_" \o ToString(idx),
                        "json"))
    IN  IF exists(f, backup_path) /\ idx = 0
        THEN free_backup_path(f, prefix, timestamp, idx + 1)
        ELSE backup_path

\* The loop of backup_current_config_with_prefix: "{prefix}_{timestamp}.json" (idx 0
\* here), then "{prefix}_{timestamp}_{idx}.json" for idx = 1, 2, .. while the path exists.
free_backup_path(f, prefix, timestamp, idx) ==
    LET backup_path ==
            PathOf(BackupDir,
                   Name(prefix \o "_",
                        IF idx = 0 THEN timestamp ELSE timestamp \o "_" \o ToString(idx),
                        "json"))
    IN  IF exists(f, backup_path)
        THEN free_backup_path(f, prefix, timestamp, idx + 1)
        ELSE backup_path

\* backup_current_config_with_prefix that writes the backup and prunes nothing.
backup_current_config_with_prefix_unpruned(f, prefix) ==
    LET config == read_omo_config(f) IN
    IF ~config.ok THEN {Outcome(FALSE, config.err, f, 0, NoPath)}
    ELSE LET backup_path == free_backup_path(f, prefix, format_timestamp(clock), 0)
         IN  {Outcome(TRUE, "", write(f, backup_path, to_string_pretty(config.value)),
                      0, backup_path)}

\* The possible outcomes of backup_current_config_with_prefix; path is the new backup.
backup_current_config_with_prefix(f, prefix) ==
    LET config == read_omo_config(f) IN
    IF ~config.ok THEN {Outcome(FALSE, config.err, f, 0, NoPath)}
    ELSE LET backup_path == free_backup_path(f, prefix, format_timestamp(clock), 0)
             written == write(f, backup_path, to_string_pretty(config.value))
             limit == get_max_backup_records(written)
         IN  {Outcome(TRUE, "", pruned.fs, 0, backup_path) :
                 pruned \in prune_backup_history_to_limit(written, limit)}

\* backup_current_config that reads the canonical file and writes no backup.
backup_current_config_skipped(f) ==
    LET skip(config) ==
            IF ~config.ok THEN {Outcome(FALSE, config.err, f, 0, NoPath)}
            ELSE {Outcome(TRUE, "", f, 0, NoPath)}
    IN  skip(read_omo_config(f))

backup_current_config(f) == backup_current_config_with_prefix(f, "oh-my-opencode")

RECURSIVE resolve(_, _)

\* The components of a path with every ".." resolved against the components before it.
resolve(components, done) ==
    IF components = <<>> THEN done
    ELSE IF Head(components) = ".."
    THEN resolve(Tail(components),
                 IF done = <<>> THEN done ELSE SubSeq(done, 1, Len(done) - 1))
    ELSE resolve(Tail(components), Append(done, Head(components)))

\* fs::canonicalize of a path as the caller wrote it.
canonicalize(path) == PathOf(resolve(path.dir, <<>>), path.name)

\* Path::starts_with, for a file's path and a directory.
starts_with(path, dir) ==
    Len(path.dir) >= Len(dir) /\ SubSeq(path.dir, 1, Len(dir)) = dir

\* Result<PathBuf, String> of ensure_backup_path.
OkPath(path) == [ok |-> TRUE, err |-> "", path |-> path]

ErrPath(err) == [ok |-> FALSE, err |-> err, path |-> NoPath]

\* ensure_backup_path with the tests made on the path as written, not on the
\* canonical path.
ensure_backup_path_as_written(f, path) ==
    IF ~exists(f, canonicalize(path)) THEN ErrPath("backup_file_not_found")
    ELSE IF ~starts_with(path, BackupDir) THEN ErrPath("illegal_backup_path")
    ELSE IF path.name.ext # "json" THEN ErrPath("only_json_backups")
    ELSE IF ~is_managed(path.name) THEN ErrPath("only_omo_backups")
    ELSE OkPath(canonicalize(path))

\* The gate of restore, delete and export: the path must exist and, once canonical,
\* lie in the backup directory, have the extension json and a managed file name.
ensure_backup_path(f, path) ==
    IF ~exists(f, canonicalize(path)) THEN ErrPath("backup_file_not_found")
    ELSE LET canonical_target == canonicalize(path) IN
         IF ~starts_with(canonical_target, BackupDir) THEN ErrPath("illegal_backup_path")
         ELSE IF canonical_target.name.ext # "json" THEN ErrPath("only_json_backups")
         ELSE IF ~is_managed(canonical_target.name) THEN ErrPath("only_omo_backups")
         ELSE OkPath(canonical_target)

\* restore_from_backup that takes its backup before it parses the file to restore.
restore_from_backup_backing_first(f, path, io) ==
    LET backup_path == ensure_backup_path(f, path) IN
    IF ~backup_path.ok THEN {Outcome(FALSE, backup_path.err, f, 0, NoPath)}
    ELSE {IF ~backed.ok THEN backed
          ELSE LET restore(config) ==
                       IF ~config.ok THEN Outcome(FALSE, "parse_backup_failed", backed.fs, 0, NoPath)
                       ELSE IF ~validate_config(config.value).ok
                       THEN Outcome(FALSE, validate_config(config.value).err, backed.fs, 0, NoPath)
                       ELSE LET w == write_omo_config(backed.fs, config.value, io) IN
                            Outcome(w.ok, w.err, w.fs, 0, NoPath)
               IN  restore(from_str(read_to_string(f, backup_path.path)))
             : backed \in backup_current_config(f)}

\* The possible outcomes of restore_from_backup.
restore_from_backup(f, path, io) ==
    LET backup_path == ensure_backup_path(f, path) IN
    IF ~backup_path.ok THEN {Outcome(FALSE, backup_path.err, f, 0, NoPath)}
    ELSE LET config == from_str(read_to_string(f, backup_path.path)) IN
         IF ~config.ok THEN {Outcome(FALSE, "parse_backup_failed", f, 0, NoPath)}
         ELSE IF ~validate_config(config.value).ok
         THEN {Outcome(FALSE, validate_config(config.value).err, f, 0, NoPath)}
         ELSE {IF ~backed.ok THEN backed
               ELSE LET w == write_omo_config(backed.fs, config.value, io) IN
                    Outcome(w.ok, w.err, w.fs, 0, NoPath)
                  : backed \in backup_current_config(f)}

delete_backup_entry(f, path) ==
    LET backup_path == ensure_backup_path(f, path) IN
    IF ~backup_path.ok THEN Outcome(FALSE, backup_path.err, f, 0, NoPath)
    ELSE Outcome(TRUE, "", remove_file(f, backup_path.path), 0, NoPath)

export_backup_entry(f, path, target_path) ==
    LET backup_path == ensure_backup_path(f, path) IN
    IF ~backup_path.ok THEN Outcome(FALSE, backup_path.err, f, 0, NoPath)
    ELSE Outcome(TRUE, "",
                 write(f, canonicalize(target_path), read_to_string(f, backup_path.path)),
                 0, NoPath)

\* clear_backup_history that removes every json file of the directory.
clear_backup_history_every_json(f) ==
    LET cleared == {p \in read_dir(f, BackupDir) : p.name.ext = "json"} IN
    Outcome(TRUE, "", remove_files(f, cleared), Cardinality(cleared), NoPath)

\* num is the number of files deleted.
clear_backup_history(f) ==
    LET cleared == {p \in read_dir(f, BackupDir) :
                       is_managed(p.name) /\ p.name.ext = "json"}
    IN  Outcome(TRUE, "", remove_files(f, cleared), Cardinality(cleared), NoPath)

\* A record of the history (created_at, the same time as text, and size are left out).
BackupInfo(path, created_at_ts) ==
    [filename |-> path.name, path |-> path, created_at_ts |-> created_at_ts,
     operation |-> IF path.name.head = "export_" THEN "export" ELSE "import"]

\* get_backup_history with the oldest record first.
get_backup_history_ascending(f) ==
    LET listed == {p \in read_dir(f, BackupDir) : p.name.ext = "json" /\ is_managed(p.name)}
        sorted == sort_by_ts_descending({<<p, f[p].created>> : p \in listed})
    IN  {[i \in 1..Len(entries) |->
             BackupInfo(entries[Len(entries) + 1 - i][1], entries[Len(entries) + 1 - i][2])] :
            entries \in sorted}

\* The possible results of get_backup_history, the newest record first.
get_backup_history(f) ==
    LET listed == {p \in read_dir(f, BackupDir) : p.name.ext = "json" /\ is_managed(p.name)}
        sorted == sort_by_ts_descending({<<p, f[p].created>> : p \in listed})
    IN  {[i \in 1..Len(entries) |-> BackupInfo(entries[i][1], entries[i][2])] :
            entries \in sorted}

export_config(f, path) ==
    LET config == read_omo_config(f) IN
    IF ~config.ok THEN Outcome(FALSE, config.err, f, 0, NoPath)
    ELSE IF ~validate_config(config.value).ok
    THEN Outcome(FALSE, validate_config(config.value).err, f, 0, NoPath)
    ELSE Outcome(TRUE, "", write(f, canonicalize(path), to_string_pretty(config.value)),
                 0, NoPath)

\* The possible outcomes of export_config_with_history.
export_config_with_history(f, path, record_history) ==
    LET exported == export_config(f, path) IN
    IF ~exported.ok \/ ~record_history THEN {exported}
    ELSE {Outcome(backed.ok, backed.err, backed.fs, 0, NoPath) :
             backed \in backup_current_config_with_prefix(exported.fs, "export")}

\* import_config that takes its backup before it validates the imported document.
import_config_backing_first(f, path, io) ==
    IF ~exists(f, canonicalize(path)) THEN {Outcome(FALSE, "import_file_not_found", f, 0, NoPath)}
    ELSE LET imported_config == from_str(read_to_string(f, canonicalize(path))) IN
         IF ~imported_config.ok THEN {Outcome(FALSE, "parse_import_file_failed", f, 0, NoPath)}
         ELSE {IF ~backed.ok THEN backed
               ELSE IF ~validate_config(imported_config.value).ok
               THEN Outcome(FALSE, validate_config(imported_config.value).err, backed.fs, 0, NoPath)
               ELSE LET w == write_omo_config(backed.fs, imported_config.value, io) IN
                    Outcome(w.ok, w.err, w.fs, 0, NoPath)
                  : backed \in backup_current_config(f)}

\* The possible outcomes of import_config.
import_config(f, path, io) ==
    IF ~exists(f, canonicalize(path)) THEN {Outcome(FALSE, "import_file_not_found", f, 0, NoPath)}
    ELSE LET imported_config == from_str(read_to_string(f, canonicalize(path))) IN
         IF ~imported_config.ok THEN {Outcome(FALSE, "parse_import_file_failed", f, 0, NoPath)}
         ELSE IF ~validate_config(imported_config.value).ok
         THEN {Outcome(FALSE, validate_config(imported_config.value).err, f, 0, NoPath)}
         ELSE {IF ~backed.ok THEN backed
               ELSE LET w == write_omo_config(backed.fs, imported_config.value, io) IN
                    Outcome(w.ok, w.err, w.fs, 0, NoPath)
                  : backed \in backup_current_config(f)}

-----------------------------------------------------------------------------
(* The backup manager: the commands of commands/import_export_commands.rs. *)

\* The most managed backups the directory holds when a new one is asked for.
MaxBackups == 1

File(text, created) == [text |-> text, created |-> created]

\* A directory outside $HOME/.config.
DownloadsDir == <<"home", "Downloads">>

\* A valid document that differs from DocEmpty.
DocQuick ==
    Object(("agents" :> Object(EmptyMap)) @@ ("categories" :> Object("quick" :> Model("gpt"))))

\* A valid document somebody shared, and a document without 'categories'.
ImportFile == PathOf(DownloadsDir, Name("shared", "", "json"))

InvalidImportFile == PathOf(DownloadsDir, Name("missing_", "fields", "json"))

\* Where the user exports to: a file with a managed name outside the backup directory.
ExportTarget == PathOf(ConfigDir, Name("export_", "saved", "json"))

\* Files of the user in the backup directory: neither is a managed backup.
ManualNote == PathOf(BackupDir, Name("manual-note", "", "json"))

ExportNotes == PathOf(BackupDir, Name("export_", "notes", "txt"))

\* A file that does not exist, with a managed name.
LostBackup == PathOf(BackupDir, Name("oh-my-opencode_", "lost", "json"))

\* The paths the history shows, and the user's files beside them: the entries of the
\* backup directory.
BackupPathInputs(f) == read_dir(f, BackupDir)

\* Any path a caller may pass where a backup is expected: every entry of the backup
\* directory; every managed backup written backups/../backups/<name>; the export
\* target, directly and written backups/../<name>; and a file that does not exist.
AnyPathInputs(f) ==
    read_dir(f, BackupDir)
        \cup {PathOf(BackupDir \o <<"..", "backups">>, p.name) :
                 p \in {q \in read_dir(f, BackupDir) : is_managed(q.name)}}
        \cup {ExportTarget, PathOf(BackupDir \o <<"..">>, ExportTarget.name), LostBackup}

\* The limits a caller may ask for.
Limits == {0, 1}

\* The managed backups of the directory.
ManagedBackups(f) ==
    {p \in read_dir(f, BackupDir) : is_managed(p.name) /\ p.name.ext = "json"}

\* The canonical file holds a valid document; the user's own files are in place.
BackupInit ==
    /\ fs = (get_config_path :> File(to_string_pretty(DocEmpty), 0))
            @@ (ImportFile :> File(to_string_pretty(DocQuick), 0))
            @@ (InvalidImportFile :> File(to_string_pretty(DocNoCategories), 0))
            @@ (ExportTarget :> File(to_string_pretty(DocEmpty), 0))
            @@ (ManualNote :> File(to_string_pretty(Object(EmptyMap)), 0))
            @@ (ExportNotes :> File(<<StringToken("notes")>>, 0))
    /\ clock = 1
    /\ ret = NoRet
    /\ old_config = Null
    /\ new_config = Null
    /\ changes = <<>>
    /\ merged = Null
    /\ calls = NoCalls

\* set_backup_history_limit, with a limit of limits; removed holds the number of files
\* the prune pass removed, which the handler drops (let _ = ...).
SetMaxBackupRecordsOf(limits) ==
    /\ \E limit \in limits :
          \E out \in set_max_backup_records(fs, limit) :
              /\ fs' = out.fs
              /\ ret' = [Ret("set_max_backup_records", out.ok, out.err, Number(limit), IoFine)
                            EXCEPT !.num = out.num,
                                   !.removed = Cardinality(DOMAIN fs \ DOMAIN out.fs)]
    /\ UNCHANGED <<clock, pureVars>>

SetMaxBackupRecords == SetMaxBackupRecordsOf(Limits)

\* export_omo_config, called while the directory holds at most most managed backups
ExportConfigWithHistoryUpTo(most) ==
    /\ Cardinality(ManagedBackups(fs)) <= most
    /\ \E path \in {ExportTarget}, record_history \in BOOLEAN :
          \E out \in export_config_with_history(fs, path, record_history) :
              /\ fs' = out.fs
              /\ ret' = [Ret("export_config_with_history", out.ok, out.err,
                             Bool(record_history), IoFine)
                            EXCEPT !.target = path]
    /\ UNCHANGED <<clock, pureVars>>

ExportConfigWithHistory == ExportConfigWithHistoryUpTo(MaxBackups)

\* import_omo_config with a path of paths, called while the directory holds at most
\* most managed backups
ImportConfigFrom(most, paths) ==
    /\ Cardinality(ManagedBackups(fs)) <= most
    /\ \E path \in paths, io \in IoOutcomes :
          \E out \in import_config(fs, path, io) :
              /\ fs' = out.fs
              /\ ret' = [Ret("import_config", out.ok, out.err, Null, io)
                            EXCEPT !.path = path]
    /\ UNCHANGED <<clock, pureVars>>

ImportConfigUpTo(most) == ImportConfigFrom(most, {ImportFile, InvalidImportFile})

ImportConfig == ImportConfigUpTo(MaxBackups)

\* restore_backup with a path of paths, called while the directory holds at most
\* most managed backups
RestoreFromBackupFrom(most, paths) ==
    /\ Cardinality(ManagedBackups(fs)) <= most
    /\ \E path \in paths, io \in IoOutcomes :
          \E out \in restore_from_backup(fs, path, io) :
              /\ fs' = out.fs
              /\ ret' = [Ret("restore_from_backup", out.ok, out.err, Null, io)
                            EXCEPT !.path = path]
    /\ UNCHANGED <<clock, pureVars>>

RestoreFromBackupOf(paths) == RestoreFromBackupFrom(MaxBackups, paths)

RestoreFromBackup == RestoreFromBackupOf(BackupPathInputs(fs))

\* delete_backup, with a path of paths
DeleteBackupEntryOf(paths) ==
    /\ \E path \in paths :
          LET out == delete_backup_entry(fs, path) IN
          /\ fs' = out.fs
          /\ ret' = [Ret("delete_backup_entry", out.ok, out.err, Null, IoFine)
                        EXCEPT !.path = path]
    /\ UNCHANGED <<clock, pureVars>>

DeleteBackupEntry == DeleteBackupEntryOf(BackupPathInputs(fs))

\* export_backup, with a path of paths
ExportBackupEntryOf(paths) ==
    /\ \E path \in paths, target_path \in {ExportTarget} :
          LET out == export_backup_entry(fs, path, target_path) IN
          /\ fs' = out.fs
          /\ ret' = [Ret("export_backup_entry", out.ok, out.err, Null, IoFine)
                        EXCEPT !.path = path, !.target = target_path]
    /\ UNCHANGED <<clock, pureVars>>

\* clear_backup_history
ClearBackupHistory ==
    /\ LET out == clear_backup_history(fs) IN
       /\ fs' = out.fs
       /\ ret' = [Ret("clear_backup_history", out.ok, out.err, Null, IoFine)
                     EXCEPT !.num = out.num]
    /\ UNCHANGED <<clock, pureVars>>

\* get_import_export_history
GetBackupHistory ==
    /\ \E backups \in get_backup_history(fs) :
          ret' = [Ret("get_backup_history", TRUE, "", Null, IoFine) EXCEPT !.list = backups]
    /\ UNCHANGED <<fs, clock, pureVars>>

BackupNext ==
    \/ Tick
    \/ SetMaxBackupRecords
    \/ ExportConfigWithHistory
    \/ ImportConfig
    \/ RestoreFromBackup
    \/ DeleteBackupEntry
    \/ ClearBackupHistory
    \/ GetBackupHistory

\* The backup manager alone, called with the paths of the backup directory.
SpecBackup == BackupInit /\ [][BackupNext]_vars

\* restore_backup, delete_backup and export_backup called with any path.
RestoreFromAnyPath == RestoreFromBackupOf(AnyPathInputs(fs))

DeleteAnyPath == DeleteBackupEntryOf(AnyPathInputs(fs))

ExportAnyPath == ExportBackupEntryOf(AnyPathInputs(fs))

GateNext == Tick \/ RestoreFromAnyPath \/ DeleteAnyPath \/ ExportAnyPath

\* A backup an earlier export left.
OldBackup == PathOf(BackupDir, Name("export_", format_timestamp(0), "json"))

GateInit ==
    /\ fs = (get_config_path :> File(to_string_pretty(DocEmpty), 0))
            @@ (ExportTarget :> File(to_string_pretty(DocEmpty), 0))
            @@ (OldBackup :> File(to_string_pretty(DocQuick), 0))
            @@ (ManualNote :> File(to_string_pretty(Object(EmptyMap)), 0))
            @@ (ExportNotes :> File(<<StringToken("notes")>>, 0))
    /\ clock = 1
    /\ ret = NoRet
    /\ old_config = Null
    /\ new_config = Null
    /\ changes = <<>>
    /\ merged = Null
    /\ calls = NoCalls

\* The three operations behind ensure_backup_path alone.
SpecGate == GateInit /\ [][GateNext]_vars

-----------------------------------------------------------------------------
(* services/preset_service.rs: one file per preset, the document with the  *)
(* key __meta__ added.  A preset name is a sequence of characters.         *)

META_FIELD == "__meta__"

\* $HOME/.config/OMO-Switch/presets
get_presets_dir == SwitchDir \o <<"presets">>

RECURSIVE name_text(_)

\* The characters of a name as one string.
name_text(name) == IF name = <<>> THEN "" ELSE Head(name) \o name_text(Tail(name))

RECURSIVE split_components(_, _)

\* The pieces of a name between its '/' characters, after the piece current.
split_components(name, current) ==
    IF name = <<>> THEN <<current>>
    ELSE IF Head(name) = "/" THEN <<current>> \o split_components(Tail(name), <<>>)
    ELSE split_components(Tail(name), Append(current, Head(name)))

\* presets_dir.join(format!("{}.json", name)).  PathBuf::join keeps the '/' of the name
\* as separators, and a name that begins with '/' replaces presets_dir; "$HOME" is
\* "/home".  A name without '/' is a file of presets_dir.  No name here holds "." or
\* ".." as a piece.
get_preset_path(name) ==
    LET pieces == split_components(name, <<>>)
        dirs == SelectSeq(SubSeq(pieces, 1, Len(pieces) - 1), LAMBDA piece : piece # <<>>)
    IN  PathOf((IF name # <<>> /\ Head(name) = "/" THEN <<>> ELSE get_presets_dir)
                   \o [i \in 1..Len(dirs) |-> name_text(dirs[i])],
               Name(name_text(pieces[Len(pieces)]), "", "json"))

\* name.contains('/') || name.contains('\\')
contains_separator(name) == \E i \in 1..Len(name) : name[i] \in {"/", "\\"}

current_timestamp_ms == clock

PresetMeta(created_at, updated_at, version) ==
    [created_at |-> created_at, updated_at |-> updated_at, version |-> version]

\* PresetMeta::new
PresetMeta_new == PresetMeta(current_timestamp_ms, current_timestamp_ms, 1)

\* PresetMeta::update
PresetMeta_update(meta) == [meta EXCEPT !.updated_at = current_timestamp_ms]

\* PresetMeta::from_value: Some(meta) when the value is an object with the three
\* unsigned fields, None otherwise.
PresetMeta_from_value(value) ==
    IF /\ is_object(value)
       /\ \A k \in {"created_at", "updated_at", "version"} :
             /\ contains_key(value, k)
             /\ value.fields[k].kind = "Number"
             /\ value.fields[k].s = "int"
             /\ value.fields[k].n >= 0
    THEN Some(PresetMeta(value.fields["created_at"].n, value.fields["updated_at"].n,
                         value.fields["version"].n))
    ELSE None

\* PresetMeta::to_value
PresetMeta_to_value(meta) ==
    Object(("created_at" :> Number(meta.created_at))
           @@ ("updated_at" :> Number(meta.updated_at))
           @@ ("version" :> Number(meta.version)))

\* Result<Option<PresetMeta>, String>
OkMeta(meta) == [ok |-> TRUE, err |-> "", meta |-> meta]

ErrMeta(err) == [ok |-> FALSE, err |-> err, meta |-> None]

read_preset_meta_from_file(f, preset_path) ==
    IF ~exists(f, preset_path) THEN OkMeta(None)
    ELSE LET meta_of(preset) ==
                 IF ~preset.ok THEN ErrMeta("parse_preset_json_failed")
                 ELSE IF is_object(preset.value) /\ contains_key(preset.value, META_FIELD)
                 THEN OkMeta(PresetMeta_from_value(preset.value.fields[META_FIELD]))
                 ELSE OkMeta(None)
         IN  meta_of(from_str(read_to_string(f, preset_path)))

\* The document with the metadata: that of the file with updated_at set to now, new
\* metadata when the file has none; a document that is no object is left as it is.
build_preset_with_meta(f, config, preset_path) ==
    LET meta(existing_meta) ==
            IF exists(f, preset_path)
            THEN PresetMeta_update(IF existing_meta.meta = None THEN PresetMeta_new
                                   ELSE existing_meta.meta[1])
            ELSE PresetMeta_new
        with_meta(existing_meta) ==
            IF exists(f, preset_path) /\ ~existing_meta.ok THEN ErrValue(existing_meta.err)
            ELSE IF is_object(config)
            THEN OkValue(Object(insert(config.fields, META_FIELD,
                                       PresetMeta_to_value(meta(existing_meta)))))
            ELSE OkValue(config)
    IN  with_meta(read_preset_meta_from_file(f, preset_path))

\* The write that ends save_preset, update_preset and apply_updates_to_preset.
write_preset(f, preset_path, preset_with_meta) ==
    IF ~preset_with_meta.ok THEN ErrFs(preset_with_meta.err, f)
    ELSE OkFs(write(f, preset_path, to_string_pretty(preset_with_meta.value)))

\* save_preset that reads the canonical file before it looks at the name.
save_preset_reading_first(f, name) ==
    LET preset_path == get_preset_path(name)
        save(config) ==
            IF ~config.ok THEN ErrFs(config.err, f)
            ELSE IF name = <<>> THEN ErrFs("preset_name_empty", f)
            ELSE IF contains_separator(name) THEN ErrFs("preset_name_invalid_path", f)
            ELSE write_preset(f, preset_path,
                              build_preset_with_meta(f, config.value, preset_path))
    IN  save(read_omo_config(f))

save_preset(f, name) ==
    IF name = <<>> THEN ErrFs("preset_name_empty", f)
    ELSE IF contains_separator(name) THEN ErrFs("preset_name_invalid_path", f)
    ELSE LET preset_path == get_preset_path(name)
             save(config) ==
                 IF ~config.ok THEN ErrFs(config.err, f)
                 ELSE write_preset(f, preset_path,
                                   build_preset_with_meta(f, config.value, preset_path))
         IN  save(read_omo_config(f))

\* The preset's document without __meta__.
get_preset_config(f, name) ==
    IF name = <<>> THEN ErrValue("preset_name_empty")
    ELSE IF ~exists(f, get_preset_path(name)) THEN ErrValue("preset_not_found")
    ELSE LET without_meta(preset_config) ==
                 IF ~preset_config.ok THEN ErrValue("parse_preset_file_failed")
                 ELSE IF is_object(preset_config.value)
                 THEN OkValue(Object(remove(preset_config.value.fields, META_FIELD)))
                 ELSE OkValue(preset_config.value)
         IN  without_meta(from_str(read_to_string(f, get_preset_path(name))))

\* delete_preset that copies the preset into the backup directory before it removes it.
delete_preset_backed(f, name) ==
    IF name = <<>> THEN ErrFs("preset_name_empty", f)
    ELSE IF ~exists(f, get_preset_path(name)) THEN ErrFs("preset_not_found", f)
    ELSE OkFs(remove_file(
                  copy(f, get_preset_path(name),
                       PathOf(BackupDir, Name("oh-my-opencode_", name_text(name), "json"))),
                  get_preset_path(name)))

\* delete_preset that removes the file active_preset together with the preset.
delete_preset_deactivating(f, name) ==
    IF name = <<>> THEN ErrFs("preset_name_empty", f)
    ELSE IF ~exists(f, get_preset_path(name)) THEN ErrFs("preset_not_found", f)
    ELSE OkFs(remove_files(f, {get_preset_path(name),
                               PathOf(SwitchDir, Name("active_preset", "", ""))}))

delete_preset(f, name) ==
    IF name = <<>> THEN ErrFs("preset_name_empty", f)
    ELSE IF ~exists(f, get_preset_path(name)) THEN ErrFs("preset_not_found", f)
    ELSE OkFs(remove_file(f, get_preset_path(name)))

\* update_preset without the test that the preset file exists.
update_preset_creating(f, name) ==
    IF name = <<>> THEN ErrFs("preset_name_empty", f)
    ELSE LET preset_path == get_preset_path(name)
             update(config) ==
                 IF ~config.ok THEN ErrFs(config.err, f)
                 ELSE write_preset(f, preset_path,
                                   build_preset_with_meta(f, config.value, preset_path))
         IN  update(read_omo_config(f))

update_preset(f, name) ==
    IF name = <<>> THEN ErrFs("preset_name_empty", f)
    ELSE LET preset_path == get_preset_path(name)
             update(config) ==
                 IF ~config.ok THEN ErrFs(config.err, f)
                 ELSE IF ~exists(f, preset_path) THEN ErrFs("preset_not_found", f)
                 ELSE write_preset(f, preset_path,
                                   build_preset_with_meta(f, config.value, preset_path))
         IN  update(read_omo_config(f))

PresetUpdateRequest(agent_name, model, variant) ==
    [agent_name |-> agent_name, model |-> model, variant |-> variant]

\* The entry of an agent or a category with the update's model, and its variant set,
\* removed ("none") or left alone (None).
with_model(entry, update) ==
    LET modelled == insert(entry.fields, "model", String(update.model)) IN
    IF update.variant = None THEN Object(modelled)
    ELSE IF update.variant[1] # "none"
    THEN Object(insert(modelled, "variant", String(update.variant[1])))
    ELSE Object(remove(modelled, "variant"))

\* One update applied under the key tree ("agents" or "categories") of the preset.
update_tree(preset_config, tree, update) ==
    IF /\ is_object(preset_config)
       /\ contains_key(preset_config, tree)
       /\ is_object(preset_config.fields[tree])
       /\ contains_key(preset_config.fields[tree], update.agent_name)
       /\ is_object(preset_config.fields[tree].fields[update.agent_name])
    THEN Object(insert(preset_config.fields, tree,
                       Object(insert(preset_config.fields[tree].fields, update.agent_name,
                                     with_model(preset_config.fields[tree].fields[update.agent_name],
                                                update)))))
    ELSE preset_config

\* One update of the loop: under "agents", then under "categories".
apply_update(preset_config, update) ==
    update_tree(update_tree(preset_config, "agents", update), "categories", update)

RECURSIVE apply_updates(_, _)

\* The loop run from the last update to the first.
apply_updates_from_last(preset_config, updates) ==
    IF updates = <<>> THEN preset_config
    ELSE apply_update(apply_updates(preset_config, Tail(updates)), Head(updates))

\* The loop over the updates: each under "agents", then under "categories".
apply_updates(preset_config, updates) ==
    IF updates = <<>> THEN preset_config
    ELSE apply_updates(apply_update(preset_config, Head(updates)), Tail(updates))

apply_updates_to_preset(f, name, updates) ==
    IF name = <<>> THEN ErrFs("preset_name_empty", f)
    ELSE IF ~exists(f, get_preset_path(name)) THEN ErrFs("preset_not_found", f)
    ELSE LET apply(preset_config) ==
                 IF ~preset_config.ok THEN ErrFs(preset_config.err, f)
                 ELSE write_preset(f, get_preset_path(name),
                                   build_preset_with_meta(
                                       f, apply_updates(preset_config.value, updates),
                                       get_preset_path(name)))
         IN  apply(get_preset_config(f, name))

-----------------------------------------------------------------------------
(* The preset store: the commands of commands/preset_commands.rs.          *)

\* The names a caller may pass: a good one, the empty one, two with a separator.
PresetNames == {<<"p">>, <<>>, <<"a", "/", "b">>, <<"a", "\\", "b">>}

\* The lists of updates a caller may pass.
UpdateLists ==
    {<<>>,
     <<PresetUpdateRequest("sisyphus", "claude", Some("high"))>>,
     <<PresetUpdateRequest("quick", "claude", None),
       PresetUpdateRequest("oracle", "gpt", Some("none"))>>}

\* save_preset, with a name of names
SavePresetOf(names) ==
    /\ \E name \in names :
          LET returns(out) ==
                  /\ fs' = out.fs
                  /\ ret' = [Ret("save_preset", out.ok, out.err, Null, IoFine)
                                EXCEPT !.name = name]
          IN  returns(save_preset(fs, name))
    /\ UNCHANGED <<clock, pureVars>>

SavePreset == SavePresetOf(PresetNames)

\* update_preset, with a name of names
UpdatePresetOf(names) ==
    /\ \E name \in names :
          LET returns(out) ==
                  /\ fs' = out.fs
                  /\ ret' = [Ret("update_preset", out.ok, out.err, Null, IoFine)
                                EXCEPT !.name = name]
          IN  returns(update_preset(fs, name))
    /\ UNCHANGED <<clock, pureVars>>

UpdatePreset == UpdatePresetOf(PresetNames)

\* apply_updates_to_preset, with a name of names and a list of lists
ApplyUpdatesToPresetOf(names, lists) ==
    /\ \E name \in names, updates \in lists :
          LET returns(out) ==
                  /\ fs' = out.fs
                  /\ ret' = [Ret("apply_updates_to_preset", out.ok, out.err, Null, IoFine)
                                EXCEPT !.name = name, !.updates = updates]
          IN  returns(apply_updates_to_preset(fs, name, updates))
    /\ UNCHANGED <<clock, pureVars>>

ApplyUpdatesToPreset == ApplyUpdatesToPresetOf(PresetNames, UpdateLists)

\* delete_preset, with a name of names
DeletePresetOf(names) ==
    /\ \E name \in names :
          LET returns(out) ==
                  /\ fs' = out.fs
                  /\ ret' = [Ret("delete_preset", out.ok, out.err, Null, IoFine)
                                EXCEPT !.name = name]
          IN  returns(delete_preset(fs, name))
    /\ UNCHANGED <<clock, pureVars>>

DeletePreset == DeletePresetOf(PresetNames)

PresetNext ==
    \/ Tick
    \/ ExternalEdit
    \/ SavePreset
    \/ UpdatePreset
    \/ ApplyUpdatesToPreset
    \/ DeletePreset

\* The preset store alone, beside a canonical file other tools rewrite.
SpecPreset == Init /\ [][PresetNext]_vars

-----------------------------------------------------------------------------
(* The validator alone: commands/config_commands.rs validate_config, on    *)
(* every document below.                                                   *)

\* What a document may hold under one key.
ValidateMembers == {Object(EmptyMap), Object("quick" :> Model("gpt")), Array(<<>>), Null}

\* The documents given to the validator: every root kind, and the objects with any
\* of the keys agents, categories, other.
ValidateDocs ==
    {Null, Bool(TRUE), Number(1), String("agents"), Array(<<>>),
     Array(<<Object(EmptyMap)>>)}
    \cup {Object(fields) :
            fields \in UNION {[keys -> ValidateMembers] :
                                keys \in SUBSET {"agents", "categories", "other"}}}

ValidateInit ==
    /\ fs = EmptyFs
    /\ clock = 1
    /\ ret = NoRet
    /\ old_config \in ValidateDocs
    /\ new_config = Null
    /\ changes = <<>>
    /\ merged = Null
    /\ calls = NoCalls

\* commands/config_commands.rs: validate_config
ValidateConfig ==
    /\ LET returns(v) == ret' = Ret("validate_config", v.ok, v.err, old_config, IoFine)
       IN  returns(validate_config(old_config))
    /\ UNCHANGED <<fs, clock, pureVars>>

ValidateNext == ValidateConfig

SpecValidate == ValidateInit /\ [][ValidateNext]_vars

-----------------------------------------------------------------------------
(* The prune pass alone: set_backup_history_limit on every backup          *)
(* directory below.                                                        *)

\* The latest creation time of a backup the directory holds at the start.
MaxStamp == 4

\* The managed names the directory may hold at the start.
PruneNames ==
    {Name("oh-my-opencode_", "a", "json"), Name("export_", "b", "json"),
     Name("oh-my-opencode_", "c", "json"), Name("export_", "d", "json")}

\* The limits asked for: below the range, inside it, above it.
PruneLimits == {0, 1, 2, 3, MAX_BACKUP_RECORDS_UPPER + 1}

\* Any of the managed names, each created at any time (two may share one), beside the
\* user's own files, which are the newest of the directory.
PruneInit ==
    /\ \E names \in SUBSET PruneNames :
          \E stamps \in [names -> 1..MaxStamp] :
              fs = [p \in {PathOf(BackupDir, n) : n \in names} |->
                        File(to_string_pretty(DocQuick), stamps[p.name])]
                   @@ (get_config_path :> File(to_string_pretty(DocEmpty), 0))
                   @@ (ManualNote :> File(to_string_pretty(Object(EmptyMap)), MaxStamp + 1))
                   @@ (ExportNotes :> File(<<StringToken("notes")>>, MaxStamp + 1))
    /\ clock = MaxStamp + 1
    /\ ret = NoRet
    /\ old_config = Null
    /\ new_config = Null
    /\ changes = <<>>
    /\ merged = Null
    /\ calls = NoCalls

PruneNext == SetMaxBackupRecordsOf(PruneLimits)

SpecPrune == PruneInit /\ [][PruneNext]_vars

-----------------------------------------------------------------------------
(* commands/config_commands.rs: the two commands that change the model of  *)
(* agents and categories in the canonical document.                        *)

\* struct AgentUpdateRequest
AgentUpdateRequest(agent_name, model, variant) ==
    [agent_name |-> agent_name, model |-> model, variant |-> variant]

\* obj.insert("model", ..), and the variant inserted, removed ("none") or left (None).
update_entry(obj, model, variant) ==
    LET modelled == insert(obj.fields, "model", String(model)) IN
    IF variant = None THEN Object(modelled)
    ELSE IF variant[1] # "none" THEN Object(insert(modelled, "variant", String(variant[1])))
    ELSE Object(remove(modelled, "variant"))

\* An entry given the model whether or not the tree holds it.
update_under_creating(config, tree, agent_name, model, variant) ==
    IF is_object(config) /\ contains_key(config, tree) /\ is_object(config.fields[tree])
    THEN Object(insert(config.fields, tree,
                       Object(insert(config.fields[tree].fields, agent_name,
                                     update_entry(Object(EmptyMap), model, variant)))))
    ELSE config

\* if let Some(..) = config.get_mut(tree).and_then(as_object_mut) { if let Some(entry) =
\* ..get_mut(agent_name) { if let Some(obj) = entry.as_object_mut() { .. } } }
update_under(config, tree, agent_name, model, variant) ==
    IF /\ is_object(config)
       /\ contains_key(config, tree)
       /\ is_object(config.fields[tree])
       /\ contains_key(config.fields[tree], agent_name)
       /\ is_object(config.fields[tree].fields[agent_name])
    THEN Object(insert(config.fields, tree,
                       Object(insert(config.fields[tree].fields, agent_name,
                                     update_entry(config.fields[tree].fields[agent_name],
                                                  model, variant)))))
    ELSE config

\* The entry of the name under "agents", then under "categories".
update_both(config, agent_name, model, variant) ==
    update_under(update_under(config, "agents", agent_name, model, variant),
                 "categories", agent_name, model, variant)

\* Result<Value, String> of a command that writes the canonical file.
Written(w, config) ==
    [ok |-> w.ok, err |-> w.err, fs |-> w.fs, value |-> IF w.ok THEN config ELSE Null]

\* write_omo_config(&config)?; Ok(config)
write_and_return(f, config, io) == Written(write_omo_config(f, config, io), config)

\* A write that reads the file again and changes what it holds then, not what the
\* caller read.
finish_update_rereading(f, config, agent_name, model, variant, io) ==
    LET again(current) ==
            IF ~current.ok THEN Written(ErrFs(current.err, f), Null)
            ELSE write_and_return(f, update_both(current.value, agent_name, model, variant),
                                  io)
    IN  again(read_omo_config(f))

\* update_agent_model after its read: the document read is changed and written.
finish_update(f, config, agent_name, model, variant, io) ==
    write_and_return(f, update_both(config, agent_name, model, variant), io)

update_agent_model(f, agent_name, model, variant, io) ==
    LET update(config) ==
            IF ~config.ok THEN Written(ErrFs(config.err, f), Null)
            ELSE finish_update(f, config.value, agent_name, model, variant, io)
    IN  update(read_omo_config(f))

RECURSIVE apply_agent_updates(_, _)

\* for update in updates { .. }
apply_agent_updates(config, updates) ==
    IF updates = <<>> THEN config
    ELSE apply_agent_updates(
             update_both(config, Head(updates).agent_name, Head(updates).model,
                         Head(updates).variant),
             Tail(updates))

update_agents_batch(f, updates, io) ==
    LET update(config) ==
            IF ~config.ok THEN Written(ErrFs(config.err, f), Null)
            ELSE write_and_return(f, apply_agent_updates(config.value, updates), io)
    IN  update(read_omo_config(f))

-----------------------------------------------------------------------------
(* The model editor: the two commands on every document below.             *)

\* Entries with sibling fields, an entry that is no object, one name in both trees.
DocMixed ==
    Object(("agents" :>
                Object(("sisyphus" :> Object(("model" :> String("gpt"))
                                              @@ ("variant" :> String("high"))
                                              @@ ("temperature" :> Number(1))))
                       @@ ("quick" :> String("gpt"))))
           @@ ("categories" :>
                Object(("quick" :> Model("gpt"))
                       @@ ("sisyphus" :> Object("prompt" :> String("text")))))
           @@ ("theme" :> String("dark")))

\* 'agents' is an array; 'categories' holds an entry.
DocAgentsArray ==
    Object(("agents" :> Array(<<String("sisyphus")>>))
           @@ ("categories" :> Object("quick" :> Model("gpt"))))

UpdateDocs == {DocA, DocMixed, DocAgentsArray, DocArray}

\* The names asked for: in one tree, in both, in neither.
AgentNames == {"sisyphus", "quick", "ghost"}

Variants == {None, Some("max"), Some("none")}

\* The batches asked for.
AgentUpdateLists ==
    {<<>>,
     <<AgentUpdateRequest("sisyphus", "claude", Some("none")),
       AgentUpdateRequest("ghost", "claude", Some("max"))>>,
     <<AgentUpdateRequest("quick", "claude", None),
       AgentUpdateRequest("quick", "gemini", Some("max"))>>}

UpdateInit ==
    /\ \E doc \in UpdateDocs :
          fs = (get_config_path :> File(to_string_pretty(doc), 0))
    /\ clock = 1
    /\ ret = NoRet
    /\ old_config = Null
    /\ new_config = Null
    /\ changes = <<>>
    /\ merged = Null
    /\ calls = NoCalls

\* update_agent_model, for an agent of names and a variant of variants
UpdateAgentModelOf(names, variants) ==
    /\ \E agent_name \in names, variant \in variants, io \in IoOutcomes :
          LET returns(out) ==
                  /\ fs' = out.fs
                  /\ ret' = [Ret("update_agent_model", out.ok, out.err, out.value, io)
                                EXCEPT !.updates =
                                           <<AgentUpdateRequest(agent_name, "claude", variant)>>]
          IN  returns(update_agent_model(fs, agent_name, "claude", variant, io))
    /\ UNCHANGED <<clock, pureVars>>

UpdateAgentModel == UpdateAgentModelOf(AgentNames, Variants)

\* update_agents_batch, with a list of lists
UpdateAgentsBatchOf(lists) ==
    /\ \E updates \in lists, io \in IoOutcomes :
          LET returns(out) ==
                  /\ fs' = out.fs
                  /\ ret' = [Ret("update_agents_batch", out.ok, out.err, out.value, io)
                                EXCEPT !.updates = updates]
          IN  returns(update_agents_batch(fs, updates, io))
    /\ UNCHANGED <<clock, pureVars>>

UpdateAgentsBatch == UpdateAgentsBatchOf(AgentUpdateLists)

UpdateNext == ExternalDelete \/ UpdateAgentModel \/ UpdateAgentsBatch

SpecUpdate == UpdateInit /\ [][UpdateNext]_vars

-----------------------------------------------------------------------------
(* Two callers of update_agent_model at once: the read and the write of a  *)
(* call are two steps, and nothing orders the steps of different callers.  *)

\* What a call returned.
Returned(ok, err, value) == [ok |-> ok, err |-> err, value |-> value]

\* let mut config = config_service::read_omo_config()?: a caller that has not called
\* yet reads the canonical file; a failed read ends the call.
BeginUpdateAgentModel(c) ==
    /\ calls[c].pc = "idle"
    /\ calls[c].returned = None
    /\ \E agent_name \in AgentNames, variant \in Variants :
          LET begins(config) ==
                  IF ~config.ok
                  THEN /\ calls' = [calls EXCEPT ![c] =
                                       Call("idle", agent_name, "claude", variant, Null,
                                            Some(Returned(FALSE, config.err, Null)))]
                       /\ ret' = [Ret("update_agent_model", FALSE, config.err, Null, IoFine)
                                     EXCEPT !.num = c,
                                            !.updates = <<AgentUpdateRequest(
                                                            agent_name, "claude", variant)>>]
                  ELSE /\ calls' = [calls EXCEPT ![c] =
                                       Call("read", agent_name, "claude", variant,
                                            config.value, None)]
                       /\ ret' = [Ret("update_agent_model.read", TRUE, "", config.value,
                                      IoFine) EXCEPT !.num = c]
          IN  begins(read_omo_config(fs))
    /\ UNCHANGED <<fs, clock, old_config, new_config, changes, merged>>

\* The rest of update_agent_model: the document the caller read is changed and written.
FinishUpdateAgentModel(c) ==
    /\ calls[c].pc = "read"
    /\ \E io \in IoOutcomes :
          LET returns(out) ==
                  /\ fs' = out.fs
                  /\ calls' = [calls EXCEPT ![c].pc = "idle",
                                            ![c].returned =
                                                Some(Returned(out.ok, out.err, out.value))]
                  /\ ret' = [Ret("update_agent_model", out.ok, out.err, out.value, io)
                                EXCEPT !.num = c,
                                       !.updates = <<AgentUpdateRequest(
                                                       calls[c].agent_name, calls[c].model,
                                                       calls[c].variant)>>]
          IN  returns(finish_update(fs, calls[c].config, calls[c].agent_name,
                                    calls[c].model, calls[c].variant, io))
    /\ UNCHANGED <<clock, old_config, new_config, changes, merged>>

RaceNext ==
    \/ \E c \in Callers : BeginUpdateAgentModel(c)
    \/ \E c \in Callers : FinishUpdateAgentModel(c)

\* One call of each caller, on any of the documents of the model editor.
SpecRace == UpdateInit /\ [][RaceNext]_vars

-----------------------------------------------------------------------------
(* services/config_cache_service.rs: the snapshot; and merge_and_save of   *)
(* commands/config_cache_commands.rs.                                      *)

\* dirs::cache_dir().join("oh-my-opencode")
get_cache_dir == <<"home", ".cache", "oh-my-opencode">>

get_snapshot_path == PathOf(get_cache_dir, Name("config-snapshot", "", "json"))

now_timestamp_ms == clock

\* struct ConfigSnapshot
ConfigSnapshot(cached_at, config) == [cached_at |-> cached_at, config |-> config]

\* save_config_snapshot that keeps the snapshot file once there is one.
save_config_snapshot_keeping(f, config) ==
    IF exists(f, get_snapshot_path) THEN f
    ELSE write(f, get_snapshot_path,
               to_string_pretty(Object(("cached_at" :> Number(now_timestamp_ms))
                                       @@ ("config" :> config))))

\* The file system save_config_snapshot leaves.
save_config_snapshot(f, config) ==
    write(f, get_snapshot_path,
          to_string_pretty(Object(("cached_at" :> Number(now_timestamp_ms))
                                  @@ ("config" :> config))))

\* cached_at: u64
is_u64(v) == v.kind = "Number" /\ v.s = "int" /\ v.n >= 0

\* serde_json::from_str::<ConfigSnapshot>: a map with the keys cached_at (a u64) and
\* config, other keys ignored, or a sequence of exactly the two fields in that order;
\* everything else is an error.
ConfigSnapshot_from_value(value) ==
    IF /\ is_object(value)
       /\ contains_key(value, "cached_at")
       /\ is_u64(value.fields["cached_at"])
       /\ contains_key(value, "config")
    THEN Some(ConfigSnapshot(value.fields["cached_at"].n, value.fields["config"]))
    ELSE IF is_array(value) /\ Len(value.items) = 2 /\ is_u64(value.items[1])
    THEN Some(ConfigSnapshot(value.items[1].n, value.items[2]))
    ELSE None

\* load_config_snapshot that takes a missing document for null.
load_config_snapshot_lenient(f) ==
    IF ~exists(f, get_snapshot_path) THEN None
    ELSE LET snapshot_of(parsed) ==
                 IF ~parsed.ok THEN None
                 ELSE IF /\ is_object(parsed.value)
                         /\ contains_key(parsed.value, "cached_at")
                         /\ is_u64(parsed.value.fields["cached_at"])
                         /\ ~contains_key(parsed.value, "config")
                 THEN Some(ConfigSnapshot(parsed.value.fields["cached_at"].n, Null))
                 ELSE ConfigSnapshot_from_value(parsed.value)
         IN  snapshot_of(from_str(read_to_string(f, get_snapshot_path)))

\* Option<ConfigSnapshot>: None when the file is missing or is no snapshot.
load_config_snapshot(f) ==
    IF ~exists(f, get_snapshot_path) THEN None
    ELSE LET snapshot_of(parsed) ==
                 IF ~parsed.ok THEN None ELSE ConfigSnapshot_from_value(parsed.value)
         IN  snapshot_of(from_str(read_to_string(f, get_snapshot_path)))

\* commands/config_cache_commands.rs: save_config_snapshot
save_config_snapshot_command(f) ==
    LET save(config) ==
            IF ~config.ok THEN ErrFs(config.err, f)
            ELSE OkFs(save_config_snapshot(f, config.value))
    IN  save(read_omo_config(f))

\* merge_and_save that writes the merged document without validating it.
merge_and_save_unvalidated(f, io) ==
    LET merge(current_config, snapshot) ==
            write_and_return(f,
                             IF snapshot # None
                             THEN merge_configs(snapshot[1].config, current_config)
                             ELSE current_config,
                             io)
        read(current_config) ==
            IF ~current_config.ok THEN Written(ErrFs(current_config.err, f), Null)
            ELSE merge(current_config.value, load_config_snapshot(f))
    IN  read(read_omo_config(f))

\* commands/config_cache_commands.rs: merge_and_save
merge_and_save(f, io) ==
    LET save(merged_config) ==
            IF ~validate_config(merged_config).ok
            THEN Written(ErrFs(validate_config(merged_config).err, f), Null)
            ELSE write_and_return(f, merged_config, io)
        merge(current_config, snapshot) ==
            save(IF snapshot # None
                 THEN merge_configs(snapshot[1].config, current_config)
                 ELSE current_config)
        read(current_config) ==
            IF ~current_config.ok THEN Written(ErrFs(current_config.err, f), Null)
            ELSE merge(current_config.value, load_config_snapshot(f))
    IN  read(read_omo_config(f))

-----------------------------------------------------------------------------
(* services/preset_service.rs: the active-preset pointer and load_preset.  *)
(* The pointer file holds the characters of a name; in a name the legacy   *)
(* prefix "__builtin__" is one element, and so is a white space.           *)

\* $HOME/.config/OMO-Switch/active_preset
get_active_preset_path == PathOf(SwitchDir, Name("active_preset", "", ""))

Char(c) == [n |-> 0, s |-> c, t |-> "char"]

\* The text of a file that holds the characters of name.
chars_text(name) == [i \in 1..Len(name) |-> Char(name[i])]

\* The characters a text holds.
text_chars(text) == [i \in 1..Len(text) |-> text[i].s]

is_whitespace(c) == c \in {" ", "\n"}

RECURSIVE trim_start(_)
RECURSIVE trim_end(_)

trim_start(s) == IF s # <<>> /\ is_whitespace(Head(s)) THEN trim_start(Tail(s)) ELSE s

trim_end(s) ==
    IF s # <<>> /\ is_whitespace(s[Len(s)]) THEN trim_end(SubSeq(s, 1, Len(s) - 1)) ELSE s

\* str::trim
trim(s) == trim_end(trim_start(s))

\* read_to_string(path).ok().map(trim).filter(not empty)
get_active_preset(f) ==
    IF ~exists(f, get_active_preset_path) THEN None
    ELSE LET filtered(s) == IF s = <<>> THEN None ELSE Some(s)
         IN  filtered(trim(text_chars(read_to_string(f, get_active_preset_path))))

\* The file system set_active_preset leaves.
set_active_preset(f, name) == write(f, get_active_preset_path, chars_text(name))

load_preset(f, name, io) ==
    IF name = <<>> THEN ErrFs("preset_name_empty", f)
    ELSE IF ~exists(f, get_preset_path(name)) THEN ErrFs("preset_not_found", f)
    ELSE LET activate(w) == IF ~w.ok THEN w ELSE OkFs(set_active_preset(w.fs, name))
             apply(preset_config) ==
                 IF ~preset_config.ok THEN ErrFs("parse_preset_file_failed", f)
                 ELSE activate(write_omo_config(
                          f,
                          IF is_object(preset_config.value)
                          THEN Object(remove(preset_config.value.fields, META_FIELD))
                          ELSE preset_config.value,
                          io))
         IN  apply(from_str(read_to_string(f, get_preset_path(name))))

-----------------------------------------------------------------------------
(* Every command that writes the canonical file, beside the backup         *)
(* history.                                                                *)

\* save_config_snapshot
SaveConfigSnapshot ==
    /\ LET returns(out) ==
               /\ fs' = out.fs
               /\ ret' = Ret("save_config_snapshot", out.ok, out.err, Null, IoFine)
       IN  returns(save_config_snapshot_command(fs))
    /\ UNCHANGED <<clock, pureVars>>

\* merge_and_save
MergeAndSave ==
    /\ \E io \in IoOutcomes :
          LET returns(out) ==
                  /\ fs' = out.fs
                  /\ ret' = Ret("merge_and_save", out.ok, out.err, out.value, io)
          IN  returns(merge_and_save(fs, io))
    /\ UNCHANGED <<clock, pureVars>>

\* load_preset, with a name of names
LoadPresetOf(names) ==
    /\ \E name \in names, io \in IoOutcomes :
          LET returns(out) ==
                  /\ fs' = out.fs
                  /\ ret' = [Ret("load_preset", out.ok, out.err, Null, io)
                                EXCEPT !.name = name]
          IN  returns(load_preset(fs, name, io))
    /\ UNCHANGED <<clock, pureVars>>

\* The one update the history is watched under.
QuickToClaude == AgentUpdateRequest("quick", "claude", None)

\* The files of the backup manager's start, a preset p and a snapshot, both of
\* DocQuick and both written at time 0.
HistoryInit ==
    /\ fs = (get_config_path :> File(to_string_pretty(DocEmpty), 0))
            @@ (ImportFile :> File(to_string_pretty(DocQuick), 0))
            @@ (InvalidImportFile :> File(to_string_pretty(DocNoCategories), 0))
            @@ (ManualNote :> File(to_string_pretty(Object(EmptyMap)), 0))
            @@ (get_preset_path(<<"p">>) :>
                    File(to_string_pretty(
                             Object(insert(DocQuick.fields, META_FIELD,
                                           PresetMeta_to_value(PresetMeta(0, 0, 1))))), 0))
            @@ (get_snapshot_path :>
                    File(to_string_pretty(Object(("cached_at" :> Number(0))
                                                 @@ ("config" :> DocQuick))), 0))
    /\ clock = 1
    /\ ret = NoRet
    /\ old_config = Null
    /\ new_config = Null
    /\ changes = <<>>
    /\ merged = Null
    /\ calls = NoCalls

HistoryNext ==
    \/ Tick
    \/ WriteOmoConfigOf({DocQuick, DocNoCategories})
    \/ UpdateAgentModelOf({"quick"}, {None})
    \/ UpdateAgentsBatchOf({<<QuickToClaude>>})
    \/ MergeAndSave
    \/ LoadPresetOf({<<"p">>, <<"q">>})
    \/ ImportConfig
    \/ RestoreFromBackup
    \/ SetMaxBackupRecordsOf({1})

\* Every command that writes the canonical file, beside the backup directory.
SpecHistory == HistoryInit /\ [][HistoryNext]_vars

-----------------------------------------------------------------------------
(* The destructive commands: restore, the two deletions and load_preset.   *)

DestroyNext ==
    \/ Tick
    \/ ImportConfig
    \/ SetMaxBackupRecordsOf({1})
    \/ RestoreFromBackup
    \/ DeleteBackupEntry
    \/ DeletePresetOf({<<"p">>, <<"q">>})
    \/ LoadPresetOf({<<"p">>})

SpecDestroy == HistoryInit /\ [][DestroyNext]_vars

-----------------------------------------------------------------------------
(* The active-preset pointer and the commands that write or read it:       *)
(* set_active_preset, load_preset, apply_builtin_preset and                *)
(* accept_external_changes.                                                *)

LEGACY_PREFIX == "__builtin__"

\* name.starts_with("__builtin__")
is_legacy(name) == name # <<>> /\ Head(name) = LEGACY_PREFIX

\* struct ModelConfig
ModelConfig(model, variant) == [model |-> model, variant |-> variant]

\* The identifiers apply_builtin_preset knows.
BuiltinPresetIds == {"official-default", "economy", "high-performance"}

\* struct BuiltinPresetData, as far as apply_builtin_preset reads it: the agents and
\* the categories of the built-in preset file, here the entries of the documents.
BuiltinPresetData(preset_id) ==
    [agents     |-> ("sisyphus" :> ModelConfig("haiku", None)),
     categories |-> ("quick" :> ModelConfig("haiku", Some("low")))]

\* insert "model"; insert "variant" when there is one, remove it otherwise
apply_model_config(entry, model_config) ==
    LET modelled == insert(entry.fields, "model", String(model_config.model)) IN
    IF model_config.variant # None
    THEN Object(insert(modelled, "variant", String(model_config.variant[1])))
    ELSE Object(remove(modelled, "variant"))

\* The document with the entries of one key ("agents", "categories") set from the
\* preset: only when the key holds an object, and only the entries that are objects.
apply_builtin_under(config, key, model_configs) ==
    IF ~(is_object(config) /\ contains_key(config, key) /\ is_object(config.fields[key]))
    THEN config
    ELSE Object(insert(config.fields, key,
             Object([k \in DOMAIN config.fields[key].fields |->
                        IF k \in DOMAIN model_configs /\ is_object(config.fields[key].fields[k])
                        THEN apply_model_config(config.fields[key].fields[k], model_configs[k])
                        ELSE config.fields[key].fields[k]])))

\* commands/upstream_sync_commands.rs: apply_builtin_preset
apply_builtin_preset(f, preset_id, io) ==
    IF preset_id \notin BuiltinPresetIds THEN ErrFs("unknown_builtin_preset", f)
    ELSE LET activate(w) ==
                 IF ~w.ok THEN w
                 ELSE OkFs(set_active_preset(w.fs, <<LEGACY_PREFIX, preset_id>>))
             save(config) ==
                 IF ~validate_config(config).ok THEN ErrFs(validate_config(config).err, f)
                 ELSE activate(write_omo_config(f, config, io))
             apply(config, preset) ==
                 IF ~config.ok THEN ErrFs(config.err, f)
                 ELSE save(apply_builtin_under(
                               apply_builtin_under(config.value, "agents", preset.agents),
                               "categories", preset.categories))
         IN  apply(read_omo_config(f), BuiltinPresetData(preset_id))

\* struct AcceptExternalChangesResult, beside the file system the command leaves.
AcceptExternalChangesResult(ok, err, f, config, active_preset, preset_synced, preset_sync_error) ==
    [ok |-> ok, err |-> err, fs |-> f, config |-> config, active_preset |-> active_preset,
     preset_synced |-> preset_synced, preset_sync_error |-> preset_sync_error,
     observed |-> None]

\* commands/config_cache_commands.rs: accept_external_changes.  observed is what
\* get_active_preset returned to it.
accept_external_changes(f) ==
    LET sync(config, f2, active_preset, observed) ==
            IF active_preset = None
            THEN [AcceptExternalChangesResult(TRUE, "", f2, config, None, FALSE, None)
                     EXCEPT !.observed = observed]
            ELSE LET synced(u) ==
                         [AcceptExternalChangesResult(
                              TRUE, "", u.fs, config, active_preset, u.ok,
                              IF u.ok THEN None ELSE Some(u.err))
                             EXCEPT !.observed = observed]
                 IN  synced(update_preset(f2, active_preset[1]))
        migrate(config, f1, observed) ==
            IF observed # None /\ is_legacy(observed[1])
            THEN sync(config, set_active_preset(f1, <<"default">>), Some(<<"default">>), observed)
            ELSE sync(config, f1, observed, observed)
        snapshot(config, f1) == migrate(config, f1, get_active_preset(f1))
        accept(config) ==
            IF ~config.ok
            THEN AcceptExternalChangesResult(FALSE, config.err, f, Null, None, FALSE, None)
            ELSE IF ~validate_config(config.value).ok
            THEN AcceptExternalChangesResult(FALSE, validate_config(config.value).err, f,
                                             Null, None, FALSE, None)
            ELSE snapshot(config.value, save_config_snapshot(f, config.value))
    IN  accept(read_omo_config(f))

\* The names a caller may hand to set_active_preset: a preset, a name with the legacy
\* prefix, a name nothing is saved under, white space.
ActiveNames == {<<"p">>, <<LEGACY_PREFIX, "economy">>, <<"q">>, <<" ">>}

\* commands/preset_commands.rs: set_active_preset, with a name of names
SetActivePresetOf(names) ==
    /\ \E name \in names :
          /\ fs' = set_active_preset(fs, name)
          /\ ret' = [Ret("set_active_preset", TRUE, "", Null, IoFine) EXCEPT !.name = name]
    /\ UNCHANGED <<clock, pureVars>>

SetActivePreset == SetActivePresetOf(ActiveNames)

\* apply_builtin_preset, with an identifier of ids
ApplyBuiltinPresetOf(ids) ==
    /\ \E preset_id \in ids, io \in IoOutcomes :
          LET returns(out) ==
                  /\ fs' = out.fs
                  /\ ret' = [Ret("apply_builtin_preset", out.ok, out.err, Null, io)
                                EXCEPT !.name = <<preset_id>>]
          IN  returns(apply_builtin_preset(fs, preset_id, io))
    /\ UNCHANGED <<clock, pureVars>>

ApplyBuiltinPreset == ApplyBuiltinPresetOf({"economy", "unknown"})

\* accept_external_changes; ret.list is what get_active_preset returned to it and
\* what it returns as active_preset.
AcceptExternalChanges ==
    /\ LET returns(out) ==
               /\ fs' = out.fs
               /\ ret' = [Ret("accept_external_changes", out.ok, out.err, out.config, IoFine)
                             EXCEPT !.list = <<out.observed, out.active_preset>>]
       IN  returns(accept_external_changes(fs))
    /\ UNCHANGED <<clock, pureVars>>

\* tray.rs: build_tray_menu reads the pointer to tick the active preset; ret.list is
\* what get_active_preset returned to it.
BuildTrayMenu ==
    /\ ret' = [Ret("build_tray_menu", TRUE, "", Null, IoFine)
                  EXCEPT !.list = get_active_preset(fs)]
    /\ UNCHANGED <<fs, clock, pureVars>>

ActiveNext ==
    \/ Tick
    \/ SetActivePreset
    \/ LoadPresetOf({<<"p">>, <<"q">>})
    \/ ApplyBuiltinPreset
    \/ SaveConfigSnapshot
    \/ AcceptExternalChanges
    \/ BuildTrayMenu

\* The pointer under every command that writes or reads it.
SpecActive == HistoryInit /\ [][ActiveNext]_vars

-----------------------------------------------------------------------------
(* load_preset, over presets saved under names with and without white      *)
(* space.                                                                  *)

\* The names presets are saved under: a plain one and one that begins with a space.
SavedNames == {<<"p">>, <<" ", "p">>}

\* The names load_preset is called with: the saved ones, one nothing is saved under,
\* the empty one.
LoadNames == SavedNames \cup {<<"q">>, <<>>}

LoadNext ==
    \/ WriteOmoConfigOf({DocA})
    \/ SavePresetOf(SavedNames)
    \/ LoadPresetOf(LoadNames)

\* The preset store under save_preset and load_preset.
SpecLoad == HistoryInit /\ [][LoadNext]_vars

-----------------------------------------------------------------------------
(* apply_updates_to_preset beside the canonical file, its .bak, the        *)
(* pointer, the snapshot and a second preset.                              *)

\* "/home/.config/opencode/oh-my-opencode": the canonical file, named as a preset.
CanonicalAsName == <<"/", "home", "/", ".config", "/", "opencode", "/", "oh-my-opencode">>

\* "/home/.cache/oh-my-opencode/config-snapshot": the snapshot, named as a preset.
SnapshotAsName == <<"/", "home", "/", ".cache", "/", "oh-my-opencode", "/", "config-snapshot">>

\* The names apply_updates_to_preset is called with: a preset, a name nothing is
\* saved under, the empty name, and the two files outside the preset directory.
FrameNames == {<<"p">>, <<"missing">>, <<>>, CanonicalAsName, SnapshotAsName}

\* The lists of updates apply_updates_to_preset is called with.
FrameLists == {<<>>, <<PresetUpdateRequest("quick", "claude", Some("high"))>>}

FrameNext ==
    \/ SavePresetOf({<<"q">>})
    \/ LoadPresetOf({<<"p">>})
    \/ ApplyUpdatesToPresetOf(FrameNames, FrameLists)

\* The preset store beside every other file of the program.
SpecFrame == HistoryInit /\ [][FrameNext]_vars

-----------------------------------------------------------------------------
(* update_preset, beside a canonical file and a preset file that other     *)
(* tools rewrite.                                                          *)

\* A canonical document that holds a __meta__ key of its own, as a copy of a preset
\* file does.
DocWithMeta ==
    Object(insert(DocEmpty.fields, META_FIELD, PresetMeta_to_value(PresetMeta(0, 0, 1))))

\* An external tool leaves a text that is no JSON in the file of preset p.
ExternalPresetEdit ==
    /\ exists(fs, get_preset_path(<<"p">>))
    /\ fs' = write(fs, get_preset_path(<<"p">>), CorruptText)
    /\ ret' = Ret("external_preset_edit", TRUE, "", Null, IoFine)
    /\ UNCHANGED <<clock, pureVars>>

SyncNext ==
    \/ Tick
    \/ ExternalEditOf({to_string_pretty(DocA), to_string_pretty(DocWithMeta), CorruptText})
    \/ ExternalDelete
    \/ ExternalPresetEdit
    \/ SavePresetOf({<<"p">>})
    \/ DeletePresetOf({<<"p">>})
    \/ UpdatePresetOf({<<"p">>, <<"q">>, <<>>})

SpecSync == HistoryInit /\ [][SyncNext]_vars

-----------------------------------------------------------------------------
(* The snapshot: the commands of commands/config_cache_commands.rs, beside *)
(* a canonical file and a snapshot file that other tools rewrite.          *)

\* What ensure_snapshot_exists and compare_with_snapshot return, beside the file
\* system they leave; saved tells whether they called save_config_snapshot.
SnapshotOutcome(ok, err, f, saved, snapshot_changes) ==
    [ok |-> ok, err |-> err, fs |-> f, saved |-> saved, changes |-> snapshot_changes]

\* ensure_snapshot_exists: Ok(false) with a snapshot, Ok(true) after it made one
ensure_snapshot_exists(f) ==
    LET create(config) ==
            IF ~config.ok THEN SnapshotOutcome(FALSE, config.err, f, FALSE, <<>>)
            ELSE SnapshotOutcome(TRUE, "", save_config_snapshot(f, config.value), TRUE, <<>>)
    IN  IF load_config_snapshot(f) # None THEN SnapshotOutcome(TRUE, "", f, FALSE, <<>>)
        ELSE create(read_omo_config(f))

\* compare_with_snapshot: the changes from the snapshot to the canonical document; with
\* no snapshot it saves one and returns no change
compare_with_snapshot(f) ==
    LET compare(current_config, snapshot) ==
            IF snapshot # None
            THEN SnapshotOutcome(TRUE, "", f, FALSE,
                                 compare_configs(snapshot[1].config, current_config))
            ELSE SnapshotOutcome(TRUE, "", save_config_snapshot(f, current_config), TRUE, <<>>)
        read(current_config) ==
            IF ~current_config.ok THEN SnapshotOutcome(FALSE, current_config.err, f, FALSE, <<>>)
            ELSE compare(current_config.value, load_config_snapshot(f))
    IN  read(read_omo_config(f))

\* ensure_snapshot_exists; ret.value is what it returns, ret.num is 1 when it saved.
EnsureSnapshotExists ==
    /\ LET returns(out) ==
               /\ fs' = out.fs
               /\ ret' = [Ret("ensure_snapshot_exists", out.ok, out.err, Bool(out.saved), IoFine)
                             EXCEPT !.num = IF out.saved THEN 1 ELSE 0]
       IN  returns(ensure_snapshot_exists(fs))
    /\ UNCHANGED <<clock, pureVars>>

\* load_config_snapshot (command); ret.list is the Option it returns.
LoadConfigSnapshot ==
    /\ ret' = [Ret("load_config_snapshot", TRUE, "", Null, IoFine)
                  EXCEPT !.list = load_config_snapshot(fs)]
    /\ UNCHANGED <<fs, clock, pureVars>>

\* compare_with_snapshot; ret.list is the changes, ret.num is 1 when it saved.
CompareWithSnapshot ==
    /\ LET returns(out) ==
               /\ fs' = out.fs
               /\ ret' = [Ret("compare_with_snapshot", out.ok, out.err, Null, IoFine)
                             EXCEPT !.list = out.changes,
                                    !.num = IF out.saved THEN 1 ELSE 0]
       IN  returns(compare_with_snapshot(fs))
    /\ UNCHANGED <<clock, pureVars>>

\* {"cached_at": 1}: a snapshot without its document.
SnapshotNoConfig == Object("cached_at" :> Number(1))

\* {"cached_at": -1, "config": ..}: the time is no u64.
SnapshotNegative == Object(("cached_at" :> Number(0 - 1)) @@ ("config" :> DocEmpty))

\* {"cached_at": 1.0, "config": ..}: the time is no integer.
SnapshotFloat == Object(("cached_at" :> Float(1)) @@ ("config" :> DocEmpty))

\* [1, {..}]: the two fields as a sequence, which serde takes for the struct.
SnapshotAsSeq == Array(<<Number(1), DocEmpty>>)

\* [1, {..}, null]: a sequence with an element too many.
SnapshotLongSeq == Array(<<Number(1), DocEmpty, Null>>)

\* What another tool, or a write cut short, may leave in the snapshot file: no JSON, a
\* document that is no snapshot, snapshots with a field missing or of another type.
BrokenSnapshots ==
    {CorruptText, <<>>, to_string_pretty(DocArray), to_string_pretty(DocEmpty),
     to_string_pretty(SnapshotNoConfig), to_string_pretty(SnapshotNegative),
     to_string_pretty(SnapshotFloat), to_string_pretty(SnapshotLongSeq)}

\* The snapshot file is overwritten from outside.
ExternalSnapshotEdit ==
    /\ \E text \in BrokenSnapshots \cup {to_string_pretty(SnapshotAsSeq)} :
          fs' = write(fs, get_snapshot_path, text)
    /\ ret' = Ret("external_snapshot_edit", TRUE, "", Null, IoFine)
    /\ UNCHANGED <<clock, pureVars>>

\* The snapshot file is deleted from outside (the cache directory is cleared).
ExternalSnapshotDelete ==
    /\ exists(fs, get_snapshot_path)
    /\ fs' = remove_file(fs, get_snapshot_path)
    /\ ret' = Ret("external_snapshot_delete", TRUE, "", Null, IoFine)
    /\ UNCHANGED <<clock, pureVars>>

SnapshotNext ==
    \/ Tick
    \/ ExternalEditOf({to_string_pretty(DocB), to_string_pretty(DocArray), CorruptText})
    \/ ExternalSnapshotEdit
    \/ ExternalSnapshotDelete
    \/ SaveConfigSnapshot
    \/ EnsureSnapshotExists
    \/ LoadConfigSnapshot
    \/ CompareWithSnapshot
    \/ MergeAndSave
    \/ AcceptExternalChanges

SpecSnapshot == HistoryInit /\ [][SnapshotNext]_vars

-----------------------------------------------------------------------------
(* The retention limit: get_backup_history_limit and                       *)
(* set_backup_history_limit, beside a settings file that other tools       *)
(* rewrite.                                                                *)

\* A settings file as it may be found, and the limit it stands for: text is what the
\* file holds, limit is the stored number within [1, 500], or the default when the file
\* holds no usize under max_backup_records.
SettingsFile(text, limit) == [text |-> text, limit |-> limit]

SettingsFiles ==
    {SettingsFile(CorruptText, DEFAULT_MAX_BACKUP_RECORDS),
     SettingsFile(<<>>, DEFAULT_MAX_BACKUP_RECORDS),
     SettingsFile(to_string_pretty(Object(EmptyMap)), DEFAULT_MAX_BACKUP_RECORDS),
     SettingsFile(to_string_pretty(Object("max_backup_records" :> String("7"))),
                  DEFAULT_MAX_BACKUP_RECORDS),
     SettingsFile(to_string_pretty(Object("max_backup_records" :> Float(7))),
                  DEFAULT_MAX_BACKUP_RECORDS),
     SettingsFile(to_string_pretty(Object("max_backup_records" :> Number(0 - 7))),
                  DEFAULT_MAX_BACKUP_RECORDS),
     SettingsFile(to_string_pretty(Object("max_backup_records" :> Number(0))), 1),
     SettingsFile(to_string_pretty(Object("max_backup_records" :> Number(7))), 7),
     SettingsFile(to_string_pretty(Array(<<Number(7)>>)), 7),
     SettingsFile(to_string_pretty(Array(<<Number(7), Number(7)>>)),
                  DEFAULT_MAX_BACKUP_RECORDS),
     SettingsFile(to_string_pretty(Object(("max_backup_records" :> Number(7))
                                          @@ ("theme" :> String("dark")))), 7),
     SettingsFile(to_string_pretty(Object("max_backup_records" :>
                                              Number(MAX_BACKUP_RECORDS_UPPER + 1))),
                  MAX_BACKUP_RECORDS_UPPER)}

\* The settings file is rewritten from outside.
ExternalSettingsEdit ==
    /\ \E settings \in SettingsFiles :
          fs' = write(fs, get_settings_path, settings.text)
    /\ ret' = Ret("external_settings_edit", TRUE, "", Null, IoFine)
    /\ UNCHANGED <<clock, pureVars>>

\* get_backup_history_limit; ret.num is the limit it returns.
GetBackupHistoryLimit ==
    /\ ret' = [Ret("get_backup_history_limit", TRUE, "", Null, IoFine)
                  EXCEPT !.num = get_max_backup_records(fs)]
    /\ UNCHANGED <<fs, clock, pureVars>>

\* The limits set_backup_history_limit is called with.
LimitInputs == {0, 1, 7, MAX_BACKUP_RECORDS_UPPER, MAX_BACKUP_RECORDS_UPPER + 1}

LimitNext ==
    \/ ExternalSettingsEdit
    \/ GetBackupHistoryLimit
    \/ SetMaxBackupRecordsOf(LimitInputs)
    \/ ImportConfig

SpecLimit == BackupInit /\ [][LimitNext]_vars

-----------------------------------------------------------------------------
(* Backups made within one millisecond: imports and exports with history,  *)
(* with room for several backups of one timestamp.                         *)

\* The most managed backups the directory holds when one more is asked for here.
MaxCollisions == 2

\* The limit that keeps two backups; without a settings file ten are kept.
CollideLimits == {2}

\* The clock stands still: every backup is made in the millisecond of the first.
CollideNext ==
    \/ SetMaxBackupRecordsOf(CollideLimits)
    \/ ImportConfigUpTo(MaxCollisions)
    \/ ExportConfigWithHistoryUpTo(MaxCollisions)
    \/ DeleteBackupEntryOf(ManagedBackups(fs))

SpecCollide == BackupInit /\ [][CollideNext]_vars

-----------------------------------------------------------------------------
(* Import and restore, from files that other tools may have damaged.       *)

\* A managed backup is rewritten from outside: with no JSON, or with a document that
\* lacks 'categories'.
ExternalBackupEdit ==
    /\ \E path \in ManagedBackups(fs), text \in {CorruptText, to_string_pretty(DocNoCategories)} :
          fs' = write(fs, path, text)
    /\ ret' = Ret("external_backup_edit", TRUE, "", Null, IoFine)
    /\ UNCHANGED <<clock, pureVars>>

\* The files a caller may import: the two shared documents, a file that does not
\* exist, and any managed backup.
ApplyImportPaths(f) == {ImportFile, InvalidImportFile, LostBackup} \cup ManagedBackups(f)

ApplyNext ==
    \/ ExternalEditOf({CorruptText})
    \/ ExternalDelete
    \/ ExternalBackupEdit
    \/ SetMaxBackupRecords
    \/ ImportConfigFrom(MaxBackups, ApplyImportPaths(fs))
    \/ RestoreFromBackup

SpecApply == BackupInit /\ [][ApplyNext]_vars

-----------------------------------------------------------------------------
(* Accepting an external change, with the pointer at any name a caller of  *)
(* set_active_preset may pass.                                             *)

\* The names the pointer is set to: a preset, a name nothing is saved under, a legacy
\* identifier, and the canonical file and the snapshot named as presets.
AcceptNames ==
    {<<"p">>, <<"q">>, <<LEGACY_PREFIX, "economy">>, CanonicalAsName, SnapshotAsName}

AcceptNext ==
    \/ ExternalEditOf({to_string_pretty(DocA), to_string_pretty(DocArray), CorruptText})
    \/ ExternalPresetEdit
    \/ SetActivePresetOf(AcceptNames)
    \/ AcceptExternalChanges
    \/ CompareWithSnapshot

SpecAccept == HistoryInit /\ [][AcceptNext]_vars

-----------------------------------------------------------------------------
(* The two editors side by side: the batch on the canonical document and   *)
(* the same updates on a preset saved from it.                             *)

EquivNext ==
    \/ SavePresetOf({<<"p">>})
    \/ ApplyUpdatesToPresetOf({<<"p">>}, AgentUpdateLists)
    \/ UpdateAgentsBatch

SpecEquiv == UpdateInit /\ [][EquivNext]_vars

-----------------------------------------------------------------------------
(* The pointer beside every command that writes a preset, the canonical    *)
(* file or a backup.                                                       *)

\* "/home/.config/OMO-Switch/active_preset": the pointer, named as a preset.
PointerAsName == <<"/", "home", "/", ".config", "/", "OMO-Switch", "/", "active_preset">>

\* The canonical document saved as the preset p, held by the snapshot and by the file
\* to import; the history keeps one backup.
PointerInit ==
    /\ fs = (get_config_path :> File(to_string_pretty(DocQuick), 0))
            @@ (ImportFile :> File(to_string_pretty(DocQuick), 0))
            @@ (get_settings_path :> File(to_string_pretty(ImportExportSettings(1)), 0))
            @@ (get_preset_path(<<"p">>) :>
                    File(to_string_pretty(
                             Object(insert(DocQuick.fields, META_FIELD,
                                           PresetMeta_to_value(PresetMeta(0, 0, 1))))), 0))
            @@ (get_snapshot_path :>
                    File(to_string_pretty(Object(("cached_at" :> Number(0))
                                                 @@ ("config" :> DocQuick))), 0))
    /\ clock = 1
    /\ ret = NoRet
    /\ old_config = Null
    /\ new_config = Null
    /\ changes = <<>>
    /\ merged = Null
    /\ calls = NoCalls

\* The update that gives the category quick the model DocQuick gives it, without a
\* variant.
QuickToGpt == AgentUpdateRequest("quick", "gpt", Some("none"))

PointerNext ==
    \/ SetActivePresetOf({<<"p">>})
    \/ LoadPresetOf({<<"p">>})
    \/ ApplyBuiltinPresetOf({"economy"})
    \/ AcceptExternalChanges
    \/ SavePresetOf({<<"p">>})
    \/ UpdatePresetOf({<<"p">>, PointerAsName})
    \/ ApplyUpdatesToPresetOf({<<"p">>, PointerAsName}, {<<QuickToGpt>>})
    \/ DeletePresetOf({<<"p">>, PointerAsName})
    \/ UpdateAgentsBatchOf({<<QuickToGpt>>})
    \/ ImportConfigFrom(MaxBackups, {ImportFile})
    \/ RestoreFromBackupOf(ManagedBackups(fs))

SpecPointer == PointerInit /\ [][PointerNext]_vars

-----------------------------------------------------------------------------
(* The size of the history after the operations that prune it, from        *)
(* directories that hold more backups than the limit allows.               *)

\* The most managed backups the directory holds when one more is asked for here.
MaxHeld == 2

\* The limits written to the settings file from outside and set by the command.
BoundLimits == {1, 2}

\* The settings file is rewritten from outside with another limit; nothing is pruned.
ExternalLimitEdit ==
    /\ \E limit \in BoundLimits :
          fs' = write(fs, get_settings_path, to_string_pretty(ImportExportSettings(limit)))
    /\ ret' = Ret("external_settings_edit", TRUE, "", Null, IoFine)
    /\ UNCHANGED <<clock, pureVars>>

BoundNext ==
    \/ ExternalLimitEdit
    \/ SetMaxBackupRecordsOf(BoundLimits \cup {MaxHeld + 1})
    \/ ImportConfigFrom(MaxHeld, {ImportFile})
    \/ ExportConfigWithHistoryUpTo(MaxHeld)
    \/ RestoreFromBackupFrom(MaxHeld, ManagedBackups(fs))

SpecBound == BackupInit /\ [][BoundNext]_vars

-----------------------------------------------------------------------------
(* The commands that write the canonical file or a preset, from a valid    *)
(* canonical document and files this tool wrote.                           *)

\* The names load_preset is called with: the preset and the snapshot's path.
ValidNames == {<<"p">>, SnapshotAsName}

ValidNext ==
    \/ WriteOmoConfigOf({DocQuick, DocNoCategories})
    \/ UpdateAgentModelOf({"quick"}, {None})
    \/ UpdateAgentsBatchOf({<<QuickToGpt>>})
    \/ MergeAndSave
    \/ SavePresetOf({<<"p">>})
    \/ ApplyUpdatesToPresetOf({<<"p">>}, {<<QuickToGpt>>})
    \/ LoadPresetOf(ValidNames)
    \/ ImportConfigFrom(MaxBackups, {ImportFile})
    \/ RestoreFromBackupOf(ManagedBackups(fs))

SpecValid == PointerInit /\ [][ValidNext]_vars

-----------------------------------------------------------------------------
(* The whole program: every command, from the state of the first start.    *)

Next ==
    \/ DocNext
    \/ BackupNext
    \/ GateNext
    \/ PresetNext
    \/ PureNext
    \/ ValidateNext
    \/ PruneNext
    \/ UpdateNext
    \/ RaceNext
    \/ HistoryNext
    \/ DestroyNext
    \/ ActiveNext
    \/ LoadNext
    \/ FrameNext
    \/ SyncNext
    \/ SnapshotNext
    \/ LimitNext
    \/ CollideNext
    \/ ApplyNext
    \/ AcceptNext
    \/ EquivNext
    \/ PointerNext
    \/ BoundNext
    \/ ValidNext

Spec == Init /\ [][Next]_vars

-----------------------------------------------------------------------------
(* The claims.                                                             *)

\* C1 (round trip): right after a successful write_omo_config(doc) of a document that
\* passes validate_config, read_omo_config returns a document equal to doc, unknown
\* keys and nested subtrees included.
C1_RoundTrip ==
    (ret.op = "write_omo_config" /\ ret.ok /\ validate_config(ret.value).ok)
        => read_omo_config(fs) = OkValue(ret.value)

\* A document with an unknown key over a nested subtree was written and is read back.
C1_Witness ==
    /\ ret.op = "write_omo_config" /\ ret.ok
    /\ ret.value = DocA
    /\ read_omo_config(fs).value.fields["nested"].fields["deep"].fields["value"] = Number(123)

\* C5 (merge absorption): merging new_config once more into the result of
\* merge_configs(old_config, new_config) changes nothing.
C5_MergeAbsorption ==
    ret.op = "merge_configs" => merge_configs(merged, new_config) = merged

\* Two objects were merged and the result is neither of them.
C5_Witness ==
    /\ ret.op = "merge_configs"
    /\ is_object(old_config) /\ is_object(new_config)
    /\ merged # old_config /\ merged # new_config

\* C6 (diff identity): compare_configs(d, d) is the empty change list.
C6_DiffIdentity ==
    (ret.op = "compare_configs" /\ old_config = new_config) => changes = <<>>

\* A document with nested objects was compared with itself.
C6_Witness ==
    ret.op = "compare_configs" /\ old_config = DocA /\ new_config = DocA

\* The paths of the changes of one type in a change list.
PathsOf(list, change_type) ==
    {list[i].path : i \in {j \in DOMAIN list : list[j].change_type = change_type}}

\* C7 (diff symmetry of kind): compare_configs(a, b) has an "added" change at a path
\* exactly when compare_configs(b, a) has a "removed" change there, and the same with
\* the two types exchanged.
C7_DiffSymmetry ==
    ret.op = "compare_configs" =>
        LET back == compare_configs(new_config, old_config) IN
        /\ PathsOf(changes, "added") = PathsOf(back, "removed")
        /\ PathsOf(changes, "removed") = PathsOf(back, "added")

\* A comparison that found both an added and a removed key.
C7_Witness ==
    /\ ret.op = "compare_configs"
    /\ PathsOf(changes, "added") # {}
    /\ PathsOf(changes, "removed") # {}

\* C10 (backup before overwrite): when the canonical file exists, a write_omo_config of
\* a valid document either copies it to the .bak sibling and then succeeds, the .bak
\* file holding the text the canonical file had before the call, or, the copy failing,
\* returns an error and leaves the canonical file as it was.
C10_BackupBeforeOverwrite ==
    [][(ret'.op = "write_omo_config" /\ validate_config(ret'.value).ok
            /\ exists(fs, get_config_path))
        => IF ret'.io.copy_ok
           THEN /\ ret'.ok
                /\ exists(fs', BakPath)
                /\ fs'[BakPath].text = fs[get_config_path].text
                /\ fs'[get_config_path].text = to_string_pretty(ret'.value)
           ELSE /\ ~ret'.ok
                /\ fs'[get_config_path] = fs[get_config_path]]_vars

\* A write went through, and the .bak file holds a text other than the new one.
C10_Witness ==
    /\ ret.op = "write_omo_config" /\ ret.ok
    /\ exists(fs, BakPath)
    /\ fs[BakPath].text # fs[get_config_path].text
    /\ fs[get_config_path].text = to_string_pretty(ret.value)

\* The managed convention, as the claims state it.
ManagedName(name) == name.head \in {"oh-my-opencode_", "export_"} /\ name.ext = "json"

\* C2: whenever restore_from_backup returns Ok, the backup directory holds a file that
\* did not exist before the call and whose document is the canonical document of
\* before the call, whatever the retention limit and the directory held.
C2_RestoreReversibility ==
    [][(ret'.op = "restore_from_backup" /\ ret'.ok)
          => \E p \in read_dir(fs', BackupDir) \ DOMAIN fs :
                from_str(fs'[p].text) = from_str(fs[get_config_path].text)]_vars

\* C3, as stated: after set_max_backup_records(N) returns Ok, get_backup_history
\* returns at most N records, and the directory holds at most N managed files.
C3_BackupBound ==
    (ret.op = "set_max_backup_records" /\ ret.ok)
        => /\ \A backups \in get_backup_history(fs) : Len(backups) <= ret.value.n
           /\ Cardinality({p \in read_dir(fs, BackupDir) : ManagedName(p.name)}) <= ret.value.n

\* C3, amended: after set_max_backup_records(N) returns Ok, get_backup_history returns
\* at most as many records as N clamped to [1, 500], and the directory holds at most
\* that many managed files.
C3_BackupBoundClamped ==
    (ret.op = "set_max_backup_records" /\ ret.ok)
        => LET N == ret.value.n
               bound == IF N < 1 THEN 1 ELSE IF N > 500 THEN 500 ELSE N
           IN  /\ \A backups \in get_backup_history(fs) : Len(backups) <= bound
               /\ Cardinality({p \in read_dir(fs, BackupDir) : ManagedName(p.name)}) <= bound

\* set_max_backup_records(1) has returned 1 and one backup is left, beside the user's file.
C3_Witness ==
    /\ ret.op = "set_max_backup_records" /\ ret.ok
    /\ ret.value.n = 1 /\ ret.num = 1
    /\ Cardinality({p \in read_dir(fs, BackupDir) : ManagedName(p.name)}) = 1
    /\ ManualNote \in DOMAIN fs

\* The gate, as the claim states it: the file exists and its canonical path lies in the
\* backup directory and has a managed name.
Admitted(f, path) ==
    LET canonical == canonicalize(path) IN
    /\ canonical \in DOMAIN f
    /\ Len(canonical.dir) >= Len(BackupDir)
    /\ SubSeq(canonical.dir, 1, Len(BackupDir)) = BackupDir
    /\ ManagedName(canonical.name)

\* C8: restore_from_backup, delete_backup_entry and export_backup_entry called with a
\* path the gate does not admit return an error and change no file.
C8_PathSecurityGate ==
    [][(/\ ret'.op \in {"restore_from_backup", "delete_backup_entry", "export_backup_entry"}
        /\ ~Admitted(fs, ret'.path))
          => (~ret'.ok /\ fs' = fs)]_vars

\* delete_backup_entry has refused backups/../export_saved.json, a file that exists
\* outside the backup directory under a managed name.
C8_Witness ==
    /\ ret.op = "delete_backup_entry" /\ ~ret.ok
    /\ ret.err = "illegal_backup_path"
    /\ ret.path = PathOf(BackupDir \o <<"..">>, ExportTarget.name)
    /\ ExportTarget \in DOMAIN fs

\* C9: no step of a backup operation deletes or changes a file of the backup directory
\* whose name is not managed, and get_backup_history lists no such file.
C9_UnmanagedUntouched ==
    [][ret'.op \in {"import_config", "export_config_with_history", "set_max_backup_records",
                    "clear_backup_history", "delete_backup_entry", "restore_from_backup",
                    "get_backup_history"}
          => /\ \A p \in read_dir(fs, BackupDir) :
                    ~ManagedName(p.name) => (p \in DOMAIN fs' /\ fs'[p] = fs[p])
             /\ \A i \in 1..Len(ret'.list) : ManagedName(ret'.list[i].path.name)]_vars

\* clear_backup_history has deleted a backup and the user's two files are still there.
C9_Witness ==
    /\ ret.op = "clear_backup_history" /\ ret.ok /\ ret.num >= 1
    /\ ManualNote \in DOMAIN fs /\ ExportNotes \in DOMAIN fs
    /\ {p \in read_dir(fs, BackupDir) : ManagedName(p.name)} = {}

\* The metadata the preset file of a name holds: Some(meta), or None when the file is
\* missing, is no JSON, or holds no well-formed __meta__.
StoredMeta(f, name) ==
    LET preset == from_str(f[get_preset_path(name)].text) IN
    IF ~exists(f, get_preset_path(name)) \/ ~preset.ok THEN None
    ELSE IF ~is_object(preset.value) \/ ~contains_key(preset.value, META_FIELD) THEN None
    ELSE PresetMeta_from_value(preset.value.fields[META_FIELD])

\* C4: a call of save_preset, update_preset or apply_updates_to_preset on a preset
\* that holds metadata leaves it metadata with the same created_at and with an
\* updated_at that is not smaller.
C4_MetaMonotone ==
    [][(/\ ret'.op \in {"save_preset", "update_preset", "apply_updates_to_preset"}
        /\ StoredMeta(fs, ret'.name) # None)
          => /\ StoredMeta(fs', ret'.name) # None
             /\ StoredMeta(fs', ret'.name)[1].created_at = StoredMeta(fs, ret'.name)[1].created_at
             /\ StoredMeta(fs', ret'.name)[1].updated_at >= StoredMeta(fs, ret'.name)[1].updated_at]_vars

\* C4 for the calls that find an object at the root of the document they save.
C4_MetaMonotoneOfObjects ==
    [][(/\ ret'.op \in {"save_preset", "update_preset", "apply_updates_to_preset"}
        /\ StoredMeta(fs, ret'.name) # None
        /\ (ret'.op = "apply_updates_to_preset"
               \/ ~read_omo_config(fs).ok \/ is_object(read_omo_config(fs).value)))
          => /\ StoredMeta(fs', ret'.name) # None
             /\ StoredMeta(fs', ret'.name)[1].created_at = StoredMeta(fs, ret'.name)[1].created_at
             /\ StoredMeta(fs', ret'.name)[1].updated_at >= StoredMeta(fs, ret'.name)[1].updated_at]_vars

\* The checks of the validator in their order: whether check i fails on the document
\* (a type check is about a field that is there), and the error it gives.
ValidateFails(doc, i) ==
    CASE i = 1 -> doc.kind # "Object"
      [] i = 2 -> "agents" \notin DOMAIN doc.fields
      [] i = 3 -> "categories" \notin DOMAIN doc.fields
      [] i = 4 -> "agents" \in DOMAIN doc.fields /\ doc.fields["agents"].kind # "Object"
      [] i = 5 -> "categories" \in DOMAIN doc.fields
                     /\ doc.fields["categories"].kind # "Object"

ValidateErrors ==
    <<"config_root_must_be_object", "config_missing_agents", "config_missing_categories",
      "'agents' must be an object", "'categories' must be an object">>

\* C11: validate_config accepts exactly the objects whose agents and categories are
\* both objects, and otherwise gives the error of the first check that fails, in the
\* order root, agents missing, categories missing, agents type, categories type.
C11_ValidateOrder ==
    ret.op = "validate_config" =>
        /\ ret.ok <=> (/\ ret.value.kind = "Object"
                       /\ {"agents", "categories"} \subseteq DOMAIN ret.value.fields
                       /\ ret.value.fields["agents"].kind = "Object"
                       /\ ret.value.fields["categories"].kind = "Object")
        /\ ~ret.ok =>
              \E i \in 1..5 :
                 /\ ValidateFails(ret.value, i)
                 /\ \A j \in 1..(i - 1) : ~ValidateFails(ret.value, j)
                 /\ ret.err = ValidateErrors[i]

\* A document whose agents is no object and whose categories is missing was refused.
C11_Witness ==
    /\ ret.op = "validate_config"
    /\ ret.value.kind = "Object"
    /\ DOMAIN ret.value.fields = {"agents"}
    /\ ret.value.fields["agents"].kind = "Array"
    /\ ret.err = "config_missing_categories"

\* The managed backups of f created after p.
NewerThan(f, p) == {q \in ManagedBackups(f) : f[q].created > f[p].created}

\* C12: when the managed backups have pairwise distinct creation times, a prune to
\* limit leaves exactly the L newest of them (all of them when there are no more than
\* L), L being the limit clamped to 1..500.
C12_PruneKeepsNewest ==
    [][(/\ ret'.op = "set_max_backup_records"
        /\ \A p, q \in ManagedBackups(fs) : p # q => fs[p].created # fs[q].created)
          => LET N == ret'.value.n
                 L == IF N < 1 THEN 1 ELSE IF N > 500 THEN 500 ELSE N
             IN  /\ ManagedBackups(fs') =
                        {p \in ManagedBackups(fs) : Cardinality(NewerThan(fs, p)) < L}
                 /\ \A p \in ManagedBackups(fs') : fs'[p] = fs[p]]_vars

\* Four managed backups of four ages were pruned to a limit of two.
C12_Witness ==
    /\ ret.op = "set_max_backup_records"
    /\ ret.value = Number(2)
    /\ ret.removed = 2
    /\ ManagedBackups(fs) =
           {PathOf(BackupDir, Name("oh-my-opencode_", "c", "json")),
            PathOf(BackupDir, Name("export_", "d", "json"))}
    /\ fs[PathOf(BackupDir, Name("oh-my-opencode_", "c", "json"))].created = 4
    /\ fs[PathOf(BackupDir, Name("export_", "d", "json"))].created = 3

\* The canonical document of f, as read_omo_config parses it.
CanonicalDoc(f) == from_str(f[get_config_path].text).value

\* The document without what an update of the names may change: the fields model and
\* variant of the object-valued entries of those names under agents and categories.
Masked(doc, names) ==
    IF ~is_object(doc) THEN doc
    ELSE Object([k \in DOMAIN doc.fields |->
                    IF k \in {"agents", "categories"} /\ is_object(doc.fields[k])
                    THEN Object([n \in DOMAIN doc.fields[k].fields |->
                                    IF n \in names /\ is_object(doc.fields[k].fields[n])
                                    THEN Object(remove(remove(doc.fields[k].fields[n].fields,
                                                              "model"), "variant"))
                                    ELSE doc.fields[k].fields[n]])
                    ELSE doc.fields[k]])

\* The names a list of updates asks for.
RequestedNames(updates) == {updates[i].agent_name : i \in 1..Len(updates)}

\* C13: update_agent_model and update_agents_batch leave the canonical document as it
\* was but for the fields model and variant of the object-valued entries of the
\* requested names under agents and categories: no other key or subtree changes and
\* no entry is created; a call that fails leaves the file as it was.
C13_UnknownFieldsSurvive ==
    [][ret'.op \in {"update_agent_model", "update_agents_batch"}
          => IF ret'.ok
             THEN /\ exists(fs, get_config_path)
                  /\ Masked(CanonicalDoc(fs'), RequestedNames(ret'.updates))
                        = Masked(CanonicalDoc(fs), RequestedNames(ret'.updates))
             ELSE /\ exists(fs', get_config_path) = exists(fs, get_config_path)
                  /\ exists(fs, get_config_path)
                        => fs'[get_config_path] = fs[get_config_path]]_vars

\* The model of sisyphus was changed in both trees of the mixed document: the sibling
\* fields and the unknown key are still there, the variant too.
C13_Witness ==
    /\ ret.op = "update_agent_model"
    /\ ret.ok
    /\ ret.updates = <<AgentUpdateRequest("sisyphus", "claude", None)>>
    /\ exists(fs, get_config_path)
    /\ CanonicalDoc(fs) = ret.value
    /\ ret.value =
           Object(("agents" :>
                       Object(("sisyphus" :> Object(("model" :> String("claude"))
                                                     @@ ("variant" :> String("high"))
                                                     @@ ("temperature" :> Number(1))))
                              @@ ("quick" :> String("gpt"))))
                  @@ ("categories" :>
                       Object(("quick" :> Model("gpt"))
                              @@ ("sisyphus" :> Object(("model" :> String("claude"))
                                                        @@ ("prompt" :> String("text"))))))
                  @@ ("theme" :> String("dark")))

\* C14: nothing serializes the read-modify-write cycles. A write of update_agent_model
\* that returns Ok leaves the document its caller read with the caller's own change,
\* whatever the file held when it was written: what another caller wrote in between
\* is gone.
C14_WriteFromStaleRead ==
    [][(ret'.op = "update_agent_model" /\ ret'.ok)
          => /\ calls[ret'.num].pc = "read"
             /\ Masked(CanonicalDoc(fs'), {calls[ret'.num].agent_name})
                   = Masked(calls[ret'.num].config, {calls[ret'.num].agent_name})]_vars

\* The lost update: on DocA, caller 1 changed sisyphus and caller 2 changed quick, both
\* returned Ok, caller 1's result shows its change, and the canonical document holds
\* caller 2's change alone.
C14_Witness ==
    /\ calls[1].returned # None /\ calls[2].returned # None
    /\ calls[1].agent_name = "sisyphus" /\ calls[2].agent_name = "quick"
    /\ calls[1].returned[1].ok /\ calls[2].returned[1].ok
    /\ calls[1].returned[1].value =
           Object(("agents" :> Object("sisyphus" :> Model("claude")))
                  @@ ("categories" :> Object("quick" :> Model("gpt")))
                  @@ ("nested" :> Object("deep" :> Object("value" :> Number(123)))))
    /\ CanonicalDoc(fs) =
           Object(("agents" :> Object("sisyphus" :> Model("gpt")))
                  @@ ("categories" :> Object("quick" :> Model("claude")))
                  @@ ("nested" :> Object("deep" :> Object("value" :> Number(123)))))

\* The commands that write the canonical file without the backup manager, and those
\* of the backup manager.
DirectWriters ==
    {"write_omo_config", "update_agent_model", "update_agents_batch", "merge_and_save",
     "load_preset"}

BackedWriters == {"import_config", "restore_from_backup"}

HistoryHolds(f, text) == \E p \in ManagedBackups(f) : f[p].text = text

Observed ==
    IF ret.op = "accept_external_changes" /\ ret.ok THEN ret.list[1]
    ELSE IF ret.op = "build_tray_menu" THEN ret.list
    ELSE None

\* C17 (legacy sentinel on read): whenever the pointer file holds a name with the
\* prefix "__builtin__", get_active_preset returns None, and no caller is ever handed
\* a name with that prefix.
C17_LegacySentinelOnRead ==
    /\ (get_active_preset(fs) # None => ~is_legacy(get_active_preset(fs)[1]))
    /\ (Observed # None => ~is_legacy(Observed[1]))

\* accept_external_changes was handed a name with the legacy prefix, wrote "default"
\* over it and returned that.
C17_Migrated ==
    /\ ret.op = "accept_external_changes"
    /\ ret.ok
    /\ ret.list[1] # None
    /\ is_legacy(ret.list[1][1])
    /\ ret.list[2] = Some(<<"default">>)
    /\ get_active_preset(fs) = Some(<<"default">>)

\* Option of the file at a path: its text and its creation time.
FileAt(f, path) == IF exists(f, path) THEN Some(f[path]) ELSE None

\* C18 (load_preset): with no preset file of the name it returns NotFound and leaves
\* the canonical document and the active-preset pointer unchanged; on success the
\* canonical document is the preset's document without __meta__, which is what
\* get_preset_config(name) returns, and get_active_preset() returns name.
C18_LoadPreset ==
    [][ret'.op = "load_preset"
       => /\ (~exists(fs, get_preset_path(ret'.name))
                => /\ ~ret'.ok
                   /\ ret'.err = "preset_not_found"
                   /\ FileAt(fs', get_config_path) = FileAt(fs, get_config_path)
                   /\ FileAt(fs', get_active_preset_path) = FileAt(fs, get_active_preset_path))
          /\ (ret'.ok
                => /\ get_preset_config(fs, ret'.name).ok
                   /\ read_omo_config(fs').ok
                   /\ read_omo_config(fs').value = get_preset_config(fs, ret'.name).value
                   /\ get_active_preset(fs') = Some(ret'.name))]_vars

\* load_preset of the preset " p" has succeeded and get_active_preset returns "p".
C18_Trimmed ==
    /\ ret.op = "load_preset"
    /\ ret.ok
    /\ ret.name = <<" ", "p">>
    /\ exists(fs, get_preset_path(<<" ", "p">>))
    /\ get_active_preset(fs) = Some(<<"p">>)

\* The files apply_updates_to_preset(name, ..) is to leave alone: the canonical file,
\* its .bak, the pointer, the snapshot and every file of the preset directory but
\* the one called name.json.
Framed(f, name) ==
    {get_config_path, BakPath,
     get_active_preset_path, get_snapshot_path}
    \cup {path \in DOMAIN f :
             /\ path.dir = get_presets_dir
             /\ path # PathOf(get_presets_dir, Name(name_text(name), "", "json"))}

\* C19 (frame of apply_updates_to_preset): the call writes only the named preset
\* file; the canonical document, its .bak, the active-preset pointer, the snapshot and
\* every other preset are unchanged, whether the call succeeds or fails.
C19_WritesOnlyNamedPreset ==
    [][ret'.op = "apply_updates_to_preset"
       => \A path \in Framed(fs, ret'.name) \cup Framed(fs', ret'.name) :
             FileAt(fs', path) = FileAt(fs, path)]_vars

\* apply_updates_to_preset, called with the path of the canonical file as the name,
\* has succeeded, and the canonical document holds __meta__ and the update.
C19_CanonicalRewritten ==
    /\ ret.op = "apply_updates_to_preset"
    /\ ret.ok
    /\ ret.name = CanonicalAsName
    /\ ret.updates # <<>>
    /\ exists(fs, BakPath)
    /\ exists(fs, get_active_preset_path)
    /\ exists(fs, get_preset_path(<<"q">>))
    /\ read_omo_config(fs).ok
    /\ contains_key(read_omo_config(fs).value, META_FIELD)

\* C20 (invalid preset names): save_preset with the empty name, or with a name that
\* holds '/' or '\', returns the error of the name whatever the canonical file holds,
\* readable or not, and no file is created, removed or changed.
C20_InvalidNameBeforeRead ==
    [][(ret'.op = "save_preset" /\ (ret'.name = <<>> \/ contains_separator(ret'.name)))
       => /\ ~ret'.ok
          /\ ret'.err = (IF ret'.name = <<>> THEN "preset_name_empty"
                         ELSE "preset_name_invalid_path")
          /\ fs' = fs]_vars

\* save_preset has refused a name with a separator while the canonical file could
\* not have been read, and a preset saved earlier is still there.
C20_Witness ==
    /\ ret.op = "save_preset"
    /\ contains_separator(ret.name)
    /\ ~ret.ok
    /\ ret.err = "preset_name_invalid_path"
    /\ ~read_omo_config(fs).ok
    /\ exists(fs, get_preset_path(<<"p">>))
    /\ ~exists(fs, get_preset_path(ret.name))

\* The document without its __meta__ key, when it is an object.
WithoutMeta(config) ==
    IF is_object(config) THEN Object(remove(config.fields, META_FIELD)) ELSE config

\* C21 as stated: update_preset(name) fails with NotFound when no preset file of the
\* name exists and then creates no preset file; on an existing preset it replaces the
\* preset's document by the current canonical document.
C21_UpdatePreset ==
    [][ret'.op = "update_preset"
       => /\ (~exists(fs, get_preset_path(ret'.name))
                => ~ret'.ok /\ ret'.err = "preset_not_found" /\ fs' = fs)
          /\ (exists(fs, get_preset_path(ret'.name))
                => /\ ret'.ok
                   /\ read_omo_config(fs).ok
                   /\ get_preset_config(fs', ret'.name).ok
                   /\ get_preset_config(fs', ret'.name).value
                          = read_omo_config(fs).value)]_vars

\* C21, amended: a failed update_preset changes no file. With an empty name it fails
\* with the error of the name; otherwise, with a canonical file that cannot be read,
\* with the error of that read; otherwise, with no preset file of the name, with
\* NotFound. On an existing preset whose file parses it succeeds, writes that file
\* alone, and the preset's document is the canonical document without a __meta__ key.
C21_UpdatePresetReadingFirst ==
    [][ret'.op = "update_preset"
       => /\ (~ret'.ok => fs' = fs)
          /\ (ret'.name = <<>> => ~ret'.ok /\ ret'.err = "preset_name_empty")
          /\ ((ret'.name # <<>> /\ ~read_omo_config(fs).ok)
                => ~ret'.ok /\ ret'.err = read_omo_config(fs).err)
          /\ ((/\ ret'.name # <<>>
               /\ read_omo_config(fs).ok
               /\ ~exists(fs, get_preset_path(ret'.name)))
                => ~ret'.ok /\ ret'.err = "preset_not_found")
          /\ ((/\ ret'.name # <<>>
               /\ read_omo_config(fs).ok
               /\ exists(fs, get_preset_path(ret'.name))
               /\ from_str(read_to_string(fs, get_preset_path(ret'.name))).ok)
                => /\ ret'.ok
                   /\ DOMAIN fs' = DOMAIN fs
                   /\ \A path \in DOMAIN fs \ {get_preset_path(ret'.name)} :
                         fs'[path] = fs[path]
                   /\ get_preset_config(fs', ret'.name).ok
                   /\ get_preset_config(fs', ret'.name).value
                          = WithoutMeta(read_omo_config(fs).value))]_vars

\* update_preset has put the canonical document DocA into preset p, which was created
\* at time 0, at a later time.
C21_Witness ==
    /\ ret.op = "update_preset"
    /\ ret.ok
    /\ ret.name = <<"p">>
    /\ read_omo_config(fs).ok
    /\ read_omo_config(fs).value = DocA
    /\ get_preset_config(fs, <<"p">>).ok
    /\ get_preset_config(fs, <<"p">>).value = DocA
    /\ StoredMeta(fs, <<"p">>) = Some(PresetMeta(0, 2, 1))

\* The commands that call save_config_snapshot, when they did.
SnapshotSaved(r) ==
    \/ r.op \in {"save_config_snapshot", "accept_external_changes"} /\ r.ok
    \/ r.op \in {"ensure_snapshot_exists", "compare_with_snapshot"} /\ r.ok /\ r.num = 1

\* The commands that read the snapshot, or save it under a condition, when they did
\* not save.
SnapshotKept(r) ==
    \/ r.op \in {"load_config_snapshot", "merge_and_save"}
    \/ r.op \in {"save_config_snapshot", "accept_external_changes"} /\ ~r.ok
    \/ r.op \in {"ensure_snapshot_exists", "compare_with_snapshot"} /\ ~(r.ok /\ r.num = 1)

\* C22 (one snapshot): after every call that saves a snapshot, load_config_snapshot
\* returns the document that call saved (the canonical document it read) with the time
\* of the call, the snapshot file holds that snapshot and nothing else, and it is the
\* only file of the cache directory; a call that does not save leaves the file as it
\* was, so the snapshot loaded is always that of the most recent save.
C22_OneSnapshot ==
    [][/\ SnapshotSaved(ret')
          => /\ read_omo_config(fs).ok
             /\ load_config_snapshot(fs')
                    = Some(ConfigSnapshot(clock, read_omo_config(fs).value))
             /\ fs'[get_snapshot_path].text
                    = to_string_pretty(Object(("cached_at" :> Number(clock))
                                              @@ ("config" :> read_omo_config(fs).value)))
             /\ {path \in DOMAIN fs' : path.dir = get_cache_dir} = {get_snapshot_path}
       /\ SnapshotKept(ret')
          => FileAt(fs', get_snapshot_path) = FileAt(fs, get_snapshot_path)]_vars

\* save_config_snapshot has saved DocB at time 2 over the snapshot of time 0, and
\* DocB with time 2 is all that is loaded.
C22_Witness ==
    /\ ret.op = "save_config_snapshot"
    /\ ret.ok
    /\ clock = 2
    /\ load_config_snapshot(fs) = Some(ConfigSnapshot(2, DocB))

\* The snapshot file is absent or holds a text that is no snapshot.
NoSnapshot(f) == ~exists(f, get_snapshot_path) \/ f[get_snapshot_path].text \in BrokenSnapshots

\* The result r of a command that went from the files f to the files g is that of the
\* outcome, which started without a snapshot file: the other files hold the same
\* texts, and the snapshot file holds the text the outcome saved, or is as it was when
\* the outcome saved none.
SameOutcome(r, f, g, outcome) ==
    /\ r.ok = outcome.ok
    /\ r.err = outcome.err
    /\ DOMAIN g \ {get_snapshot_path} = DOMAIN outcome.fs \ {get_snapshot_path}
    /\ \A path \in DOMAIN g \ {get_snapshot_path} : g[path].text = outcome.fs[path].text
    /\ IF exists(outcome.fs, get_snapshot_path)
       THEN /\ exists(g, get_snapshot_path)
            /\ g[get_snapshot_path].text = outcome.fs[get_snapshot_path].text
       ELSE FileAt(g, get_snapshot_path) = FileAt(f, get_snapshot_path)

\* C23 (snapshot corruption): load_config_snapshot returns None when the snapshot file
\* is absent or holds a text that is no snapshot; ensure_snapshot_exists,
\* compare_with_snapshot and merge_and_save then do what they do without the file:
\* the first two save a new snapshot (compare_with_snapshot returning no change), the
\* third writes the canonical document unmerged.
C23_CorruptionTolerated ==
    [][/\ NoSnapshot(fs) => load_config_snapshot(fs) = None
       /\ (ret'.op = "load_config_snapshot" /\ NoSnapshot(fs)) => ret'.list = None
       /\ (ret'.op = "ensure_snapshot_exists" /\ NoSnapshot(fs))
          => /\ SameOutcome(ret', fs, fs',
                            ensure_snapshot_exists(remove_file(fs, get_snapshot_path)))
             /\ ret'.ok => ret'.value = Bool(TRUE)
       /\ (ret'.op = "compare_with_snapshot" /\ NoSnapshot(fs))
          => /\ SameOutcome(ret', fs, fs',
                            compare_with_snapshot(remove_file(fs, get_snapshot_path)))
             /\ ret'.list = <<>>
             /\ ret'.ok => ret'.num = 1
       /\ (ret'.op = "merge_and_save" /\ NoSnapshot(fs) /\ ret'.ok)
          => /\ ret'.value = read_omo_config(fs).value
             /\ read_omo_config(fs') = read_omo_config(fs)
             /\ FileAt(fs', get_snapshot_path) = FileAt(fs, get_snapshot_path)]_vars

\* load_config_snapshot has returned None for a file that holds a snapshot with a
\* negative time.
C23_Witness ==
    /\ ret.op = "load_config_snapshot"
    /\ ret.list = None
    /\ exists(fs, get_snapshot_path)
    /\ fs[get_snapshot_path].text = to_string_pretty(SnapshotNegative)

\* C24 (retention limit): get_max_backup_records is always within [1, 500]: it is 10
\* when the settings file is absent or holds no usize under max_backup_records, and
\* the stored number clamped to [1, 500] otherwise; set_max_backup_records(N) returns N
\* clamped to [1, 500], stores that number, and get_max_backup_records returns it next.
C24_LimitInRange ==
    [][/\ get_max_backup_records(fs) \in 1..MAX_BACKUP_RECORDS_UPPER
       /\ ~exists(fs, get_settings_path)
          => get_max_backup_records(fs) = DEFAULT_MAX_BACKUP_RECORDS
       /\ \A settings \in SettingsFiles :
             (exists(fs, get_settings_path) /\ fs[get_settings_path].text = settings.text)
                => get_max_backup_records(fs) = settings.limit
       /\ ret'.op = "get_backup_history_limit" => ret'.num = get_max_backup_records(fs)
       /\ ret'.op = "set_max_backup_records"
          => /\ ret'.ok
             /\ ret'.num = (IF ret'.value.n < 1 THEN 1
                            ELSE IF ret'.value.n > 500 THEN 500 ELSE ret'.value.n)
             /\ fs'[get_settings_path].text
                    = to_string_pretty(Object("max_backup_records" :> Number(ret'.num)))
             /\ get_max_backup_records(fs') = ret'.num]_vars

\* get_backup_history_limit has returned 500 for a settings file that holds 501.
C24_Witness ==
    /\ ret.op = "get_backup_history_limit"
    /\ ret.num = MAX_BACKUP_RECORDS_UPPER
    /\ exists(fs, get_settings_path)
    /\ fs[get_settings_path].text
           = to_string_pretty(Object("max_backup_records" :>
                                         Number(MAX_BACKUP_RECORDS_UPPER + 1)))

\* The change path begins with prefix.
IsBelow(path, prefix) ==
    Len(path) >= Len(prefix) /\ SubSeq(path, 1, Len(prefix)) = prefix

\* The places both documents have: the two documents themselves, the members under a
\* key of two objects, and the items at an index of two arrays of the same length, with
\* their paths.
RECURSIVE Sites(_, _, _)
Sites(old, new, path) ==
    {[path |-> path, old |-> old, new |-> new]}
        \cup (IF is_object(old) /\ is_object(new)
              THEN UNION {Sites(old.fields[key], new.fields[key], key_path(path, key)) :
                             key \in DOMAIN old.fields \cap DOMAIN new.fields}
              ELSE IF is_array(old) /\ is_array(new) /\ Len(old.items) = Len(new.items)
              THEN UNION {Sites(old.items[i], new.items[i], index_path(path, i - 1)) :
                             i \in DOMAIN old.items}
              ELSE {})

\* The positions in changes of the changes at path.
ChangesAt(path) == {i \in DOMAIN changes : changes[i].path = path}

\* C25 (array changes are coarse): where compare_configs meets two arrays of different
\* lengths it emits exactly one change at their path, "modified" with the two whole
\* arrays, and no change at a path below it; where it meets two arrays of the same
\* length it emits no change at their path and a change at or below the path with
\* suffix [i] exactly for the indices whose items differ.
C25_ArrayChangesCoarse ==
    ret.op = "compare_configs" =>
        \A site \in Sites(old_config, new_config, "") :
            (is_array(site.old) /\ is_array(site.new)) =>
                IF Len(site.old.items) # Len(site.new.items)
                THEN /\ \E i \in DOMAIN changes :
                           /\ ChangesAt(site.path) = {i}
                           /\ changes[i] = ConfigChange(site.path, "modified",
                                                        Some(site.old), Some(site.new))
                     /\ \A j \in DOMAIN changes :
                           ~IsBelow(changes[j].path, site.path \o "[")
                ELSE /\ ChangesAt(site.path) = {}
                     /\ \A i \in DOMAIN site.old.items :
                           (site.old.items[i] # site.new.items[i])
                               <=> \E j \in DOMAIN changes :
                                      IsBelow(changes[j].path,
                                                  index_path(site.path, i - 1))

\* An array of three items was compared with one of two: one change, at the array.
C25_Witness ==
    /\ ret.op = "compare_configs"
    /\ old_config = Object("a" :> Array(<<Number(1), Number(2), Number(3)>>))
    /\ new_config = Object("a" :> Array(<<Number(1), Number(2)>>))
    /\ changes = <<ConfigChange("a", "modified", Some(old_config.fields["a"]),
                                Some(new_config.fields["a"]))>>

\* The diff as the rule states it, a set of changes: nothing for equal values; for two
\* objects the keys of old alone removed, the keys of new alone added, the keys of both
\* compared in turn under path.key; for two arrays of one length the items compared in
\* turn under path[i]; one "modified" change for everything else.
RECURSIVE ReferenceDiff(_, _, _)
ReferenceDiff(old, new, path) ==
    IF old = new THEN {}
    ELSE IF is_object(old) /\ is_object(new)
    THEN {ConfigChange(key_path(path, key), "removed", Some(old.fields[key]), None) :
              key \in DOMAIN old.fields \ DOMAIN new.fields}
         \cup {ConfigChange(key_path(path, key), "added", None, Some(new.fields[key])) :
                  key \in DOMAIN new.fields \ DOMAIN old.fields}
         \cup UNION {ReferenceDiff(old.fields[key], new.fields[key], key_path(path, key)) :
                        key \in DOMAIN old.fields \cap DOMAIN new.fields}
    ELSE IF is_array(old) /\ is_array(new) /\ Len(old.items) = Len(new.items)
    THEN UNION {ReferenceDiff(old.items[i], new.items[i], index_path(path, i - 1)) :
                   i \in DOMAIN old.items}
    ELSE {ConfigChange(path, "modified", Some(old), Some(new))}

\* changes holds exactly one change at path, and it is change.
OneChangeAt(path, change) ==
    \E i \in DOMAIN changes : ChangesAt(path) = {i} /\ changes[i] = change

\* C26 (object diff rule): where compare_configs meets two unequal objects it emits for
\* a key of new alone exactly one change at path.key, "added" with no old value and the
\* whole member of new; for a key of old alone exactly one change, "removed" with the
\* whole member of old and no new value; where it meets two unequal values that are not
\* both objects nor both arrays, exactly one change, "modified" with both values; and
\* the changes are, without repetition, those of the rule applied to the documents.
C26_ObjectDiffRule ==
    ret.op = "compare_configs" =>
        /\ \A site \in Sites(old_config, new_config, "") :
              /\ (is_object(site.old) /\ is_object(site.new)) =>
                    /\ \A key \in DOMAIN site.new.fields \ DOMAIN site.old.fields :
                          OneChangeAt(key_path(site.path, key),
                                      ConfigChange(key_path(site.path, key), "added",
                                                   None, Some(site.new.fields[key])))
                    /\ \A key \in DOMAIN site.old.fields \ DOMAIN site.new.fields :
                          OneChangeAt(key_path(site.path, key),
                                      ConfigChange(key_path(site.path, key), "removed",
                                                   Some(site.old.fields[key]), None))
              /\ (/\ site.old # site.new
                  /\ ~(is_object(site.old) /\ is_object(site.new))
                  /\ ~(is_array(site.old) /\ is_array(site.new))) =>
                    OneChangeAt(site.path,
                                ConfigChange(site.path, "modified",
                                             Some(site.old), Some(site.new)))
        /\ {changes[i] : i \in DOMAIN changes} = ReferenceDiff(old_config, new_config, "")
        /\ Len(changes) = Cardinality(ReferenceDiff(old_config, new_config, ""))

\* An agent with a model was added beside another: one change, at agents.y, "added"
\* with the whole agent.
C26_Witness ==
    /\ ret.op = "compare_configs"
    /\ old_config = Object("agents" :> Object("x" :> Object(EmptyMap)))
    /\ changes = <<ConfigChange("agents.y", "added", None, Some(Model("gpt")))>>

\* result is the merge of old and new as the rule states it: for two objects an object
\* with the keys of both, a key of old alone with old's member, a key of new alone with
\* new's member, a key of both with the merge of the two members; new for everything
\* else.
RECURSIVE IsMergeOf(_, _, _)
IsMergeOf(result, old, new) ==
    IF is_object(old) /\ is_object(new)
    THEN /\ is_object(result)
         /\ DOMAIN result.fields = DOMAIN old.fields \cup DOMAIN new.fields
         /\ \A key \in DOMAIN old.fields \ DOMAIN new.fields :
               result.fields[key] = old.fields[key]
         /\ \A key \in DOMAIN new.fields \ DOMAIN old.fields :
               result.fields[key] = new.fields[key]
         /\ \A key \in DOMAIN old.fields \cap DOMAIN new.fields :
               IsMergeOf(result.fields[key], old.fields[key], new.fields[key])
    ELSE result = new

\* C27 (merge rule): merge_configs(old, new) of two objects has exactly the keys of old
\* and new, a key of old alone keeps old's member, a key of new alone takes new's, a key
\* of both takes the merge of the two members; when old or new is no object the result
\* is new.
C27_MergeRule ==
    ret.op = "merge_configs" => IsMergeOf(merged, old_config, new_config)

\* {"a": 1, "b": 2} was merged with {"b": 3, "c": 4}: the result is
\* {"a": 1, "b": 3, "c": 4}.
C27_Witness ==
    /\ ret.op = "merge_configs"
    /\ old_config = Object(("a" :> Number(1)) @@ ("b" :> Number(2)))
    /\ new_config = Object(("b" :> Number(3)) @@ ("c" :> Number(4)))
    /\ merged = Object(("a" :> Number(1)) @@ ("b" :> Number(3)) @@ ("c" :> Number(4)))

\* C28 (history listing): get_backup_history returns exactly one record for each managed
\* file of the backup directory and none for another file, each with the creation time
\* of its file, the records in descending order of creation time, and the operation
\* "export" exactly for the files whose name starts with export_, "import" for the rest.
C28_HistoryListing ==
    [][ret'.op = "get_backup_history" =>
          /\ ret'.ok
          /\ {ret'.list[i].path : i \in DOMAIN ret'.list}
                 = {p \in read_dir(fs, BackupDir) : ManagedName(p.name)}
          /\ Len(ret'.list) = Cardinality({p \in read_dir(fs, BackupDir) : ManagedName(p.name)})
          /\ \A i \in DOMAIN ret'.list :
                /\ ret'.list[i].filename = ret'.list[i].path.name
                /\ ret'.list[i].created_at_ts = fs[ret'.list[i].path].created
                /\ ret'.list[i].operation
                       = (IF ret'.list[i].filename.head = "export_" THEN "export" ELSE "import")
          /\ \A i, j \in DOMAIN ret'.list :
                i < j => ret'.list[i].created_at_ts >= ret'.list[j].created_at_ts]_vars

\* The history listed an export made after an import backup, the export first, while
\* the directory held the user's own files as well.
C28_Witness ==
    /\ ret.op = "get_backup_history"
    /\ Len(ret.list) >= 2
    /\ ret.list[1].operation = "export"
    /\ ret.list[Len(ret.list)].operation = "import"
    /\ ret.list[1].created_at_ts > ret.list[Len(ret.list)].created_at_ts
    /\ ManualNote \in DOMAIN fs /\ ExportNotes \in DOMAIN fs

\* C29 (saving a preset twice): a save_preset that returns Ok for a name without a
\* preset file stores version 1 and created_at = updated_at = the time of the call; one
\* that returns Ok for a name whose preset holds metadata of an earlier time stores the
\* same created_at and a greater updated_at.
C29_SaveTwice ==
    [][(ret'.op = "save_preset" /\ ret'.ok) =>
          IF ~exists(fs, get_preset_path(ret'.name))
          THEN StoredMeta(fs', ret'.name) = Some(PresetMeta(clock, clock, 1))
          ELSE (/\ StoredMeta(fs, ret'.name) # None
                /\ clock > StoredMeta(fs, ret'.name)[1].updated_at)
                  => /\ StoredMeta(fs', ret'.name) # None
                     /\ StoredMeta(fs', ret'.name)[1].created_at
                            = StoredMeta(fs, ret'.name)[1].created_at
                     /\ StoredMeta(fs', ret'.name)[1].updated_at
                            > StoredMeta(fs, ret'.name)[1].updated_at]_vars

\* C29 for the calls that find an object at the root of the canonical document.
C29_SaveTwiceOfObjects ==
    [][(ret'.op = "save_preset" /\ ret'.ok /\ is_object(read_omo_config(fs).value)) =>
          IF ~exists(fs, get_preset_path(ret'.name))
          THEN StoredMeta(fs', ret'.name) = Some(PresetMeta(clock, clock, 1))
          ELSE (/\ StoredMeta(fs, ret'.name) # None
                /\ clock > StoredMeta(fs, ret'.name)[1].updated_at)
                  => /\ StoredMeta(fs', ret'.name) # None
                     /\ StoredMeta(fs', ret'.name)[1].created_at
                            = StoredMeta(fs, ret'.name)[1].created_at
                     /\ StoredMeta(fs', ret'.name)[1].updated_at
                            > StoredMeta(fs, ret'.name)[1].updated_at]_vars

\* A preset saved at time 1 was saved again at time 2 and holds created_at 1,
\* updated_at 2.
C29_SavedTwice ==
    /\ ret.op = "save_preset" /\ ret.ok
    /\ StoredMeta(fs, ret.name) = Some(PresetMeta(1, 2, 1))

\* The backup name of a prefix and a timestamp with suffix k, without suffix for k = 0.
SuffixedBackup(prefix, timestamp, k) ==
    PathOf(BackupDir,
           Name(prefix \o "_",
                IF k = 0 THEN timestamp ELSE timestamp \o "_" \o ToString(k), "json"))

\* The name a new backup is to get in f: the name without suffix when it is free, else
\* the name with the smallest suffix k >= 1 that is free.
FirstFreeBackup(f, prefix, timestamp) ==
    LET free == {k \in 0..(Cardinality(DOMAIN f) + 1) :
                    SuffixedBackup(prefix, timestamp, k) \notin DOMAIN f}
    IN  SuffixedBackup(prefix, timestamp, CHOOSE k \in free : \A other \in free : k <= other)

\* C30 (collision-safe backups): an import or an export with history leaves every file
\* of the backup directory as it was or removes it, and removes only managed files and
\* only down to the retention limit; a file it adds to the directory has the name
\* <prefix>_<timestamp>.json when that name was free and else the name with the
\* smallest free suffix _k, k >= 1, and holds the canonical document of before the call.
C30_CollisionSafe ==
    [][ret'.op \in {"import_config", "export_config_with_history"} =>
          /\ \A p \in read_dir(fs, BackupDir) : p \in DOMAIN fs' => fs'[p] = fs[p]
          /\ \A p \in read_dir(fs, BackupDir) \ DOMAIN fs' :
                /\ ManagedName(p.name)
                /\ Cardinality(ManagedBackups(fs')) = get_max_backup_records(fs)
          /\ \A p \in read_dir(fs', BackupDir) \ DOMAIN fs :
                /\ p = FirstFreeBackup(fs, IF ret'.op = "import_config"
                                            THEN "oh-my-opencode" ELSE "export",
                                       format_timestamp(clock))
                /\ fs'[p].text = fs[get_config_path].text]_vars

\* Three import backups of one millisecond stand side by side, without suffix and with
\* the suffixes _1 and _2, the first with the document of before the first import.
C30_Witness ==
    /\ ret.op = "import_config" /\ ret.ok
    /\ \A k \in 0..2 : exists(fs, SuffixedBackup("oh-my-opencode", "1", k))
    /\ fs[SuffixedBackup("oh-my-opencode", "1", 0)].text = to_string_pretty(DocEmpty)
    /\ fs[SuffixedBackup("oh-my-opencode", "1", 2)].text = to_string_pretty(DocQuick)

\* The managed files the step from f to g added to the backup directory.
NewBackups(f, g) == ManagedBackups(g) \ DOMAIN f

\* C31 (restore validates before it mutates): restore_from_backup of a path that passes
\* the gate and whose file is no JSON or fails validate_config returns an error and
\* changes no file; whenever it returns an error the canonical file is as before;
\* when it returns Ok the file parsed and passed validate_config, a backup it added
\* holds the canonical document of before the call, and the canonical document is
\* then the document the file held.
C31_RestoreValidatesFirst ==
    [][ret'.op = "restore_from_backup" =>
          LET gate == ensure_backup_path(fs, ret'.path) IN
          /\ (/\ gate.ok
              /\ \/ ~from_str(fs[gate.path].text).ok
                 \/ ~validate_config(from_str(fs[gate.path].text).value).ok)
                => (~ret'.ok /\ fs' = fs)
          /\ ~ret'.ok =>
                /\ exists(fs', get_config_path) <=> exists(fs, get_config_path)
                /\ exists(fs, get_config_path) => fs'[get_config_path] = fs[get_config_path]
          /\ ret'.ok =>
                /\ gate.ok
                /\ from_str(fs[gate.path].text).ok
                /\ validate_config(from_str(fs[gate.path].text).value).ok
                /\ \A p \in NewBackups(fs, fs') : fs'[p].text = fs[get_config_path].text
                /\ read_omo_config(fs').ok
                /\ read_omo_config(fs').value = from_str(fs[gate.path].text).value]_vars

\* A restore has replaced the canonical document by the one of a backup and has left
\* a new backup with the document it replaced.
C31_Witness ==
    /\ ret.op = "restore_from_backup" /\ ret.ok
    /\ read_omo_config(fs).value = DocEmpty
    /\ \E p \in ManagedBackups(fs) :
          p # ret.path /\ fs[p].text = to_string_pretty(DocQuick)

\* The file at path is missing, is no JSON, or holds a document validate_config rejects.
NotImportable(f, path) ==
    \/ ~exists(f, path)
    \/ ~from_str(f[path].text).ok
    \/ ~validate_config(from_str(f[path].text).value).ok

\* C32 (import is validate, then backup, then apply): import_config of a file that is
\* missing, unparsable or fails validate_config returns an error and changes no file;
\* when it returns Ok the backup directory holds a new oh-my-opencode_ backup with the
\* canonical document of before the call, and the canonical document is the imported
\* one.
C32_ImportValidateBackupApply ==
    [][ret'.op = "import_config" =>
          /\ NotImportable(fs, ret'.path) => (~ret'.ok /\ fs' = fs)
          /\ ret'.ok =>
                /\ \E p \in NewBackups(fs, fs') :
                      /\ p.name.head = "oh-my-opencode_"
                      /\ fs'[p].text = fs[get_config_path].text
                /\ read_omo_config(fs').ok
                /\ read_omo_config(fs').value = from_str(fs[ret'.path].text).value]_vars

\* C32 without the new backup still being there: a backup the import added holds the
\* canonical document of before the call.
C32_ImportValidateApply ==
    [][ret'.op = "import_config" =>
          /\ NotImportable(fs, ret'.path) => (~ret'.ok /\ fs' = fs)
          /\ ret'.ok =>
                /\ \A p \in NewBackups(fs, fs') :
                      /\ p.name.head = "oh-my-opencode_"
                      /\ fs'[p].text = fs[get_config_path].text
                /\ read_omo_config(fs').ok
                /\ read_omo_config(fs').value = from_str(fs[ret'.path].text).value]_vars

\* C33 (accepting makes the snapshot current): when accept_external_changes returns Ok
\* the snapshot holds the canonical document the call read, and compare_with_snapshot
\* called next returns Ok with no change, whether the active preset was brought up to
\* date or not.
C33_AcceptedIsCurrent ==
    [][(ret'.op = "accept_external_changes" /\ ret'.ok) =>
          /\ load_config_snapshot(fs') # None
          /\ load_config_snapshot(fs')[1].config = read_omo_config(fs).value
          /\ compare_with_snapshot(fs').ok
          /\ compare_with_snapshot(fs').changes = <<>>]_vars

\* C33 for a pointer that names a file of the preset directory, or nothing.
C33_AcceptedIsCurrentOfPresets ==
    [][(/\ ret'.op = "accept_external_changes" /\ ret'.ok
        /\ \/ get_active_preset(fs) = None
           \/ get_preset_path(get_active_preset(fs)[1]).dir = get_presets_dir) =>
          /\ load_config_snapshot(fs') # None
          /\ load_config_snapshot(fs')[1].config = read_omo_config(fs).value
          /\ compare_with_snapshot(fs').ok
          /\ compare_with_snapshot(fs').changes = <<>>]_vars

\* accept_external_changes has brought the canonical file "up to date" as the active
\* preset: the canonical document holds __meta__, which the snapshot does not.
C33_CanonicalSynced ==
    /\ ret.op = "accept_external_changes" /\ ret.ok
    /\ get_active_preset(fs) = Some(CanonicalAsName)
    /\ contains_key(read_omo_config(fs).value, META_FIELD)
    /\ ~contains_key(load_config_snapshot(fs)[1].config, META_FIELD)

\* The document a preset file holds, without __meta__.
PresetDoc(f, name) == WithoutMeta(from_str(f[get_preset_path(name)].text).value)

\* The canonical document update_agents_batch leaves when it finds doc there.
BatchResult(doc, updates) ==
    read_omo_config(
        update_agents_batch(get_config_path :> File(to_string_pretty(doc), 0),
                            updates, IoFine).fs).value

\* C34 (the preset editor follows the batch editor): when apply_updates_to_preset
\* returns Ok, the document the preset holds afterwards, without __meta__, is the
\* canonical document update_agents_batch leaves for the same updates when it starts
\* from the document the preset held before, without __meta__.
C34_PresetEditorFollowsBatch ==
    [][(ret'.op = "apply_updates_to_preset" /\ ret'.ok) =>
          PresetDoc(fs', ret'.name) = BatchResult(PresetDoc(fs, ret'.name), ret'.updates)]_vars

\* Two updates of one name were applied to a preset in list order: the category quick
\* holds the model and the variant of the second, the agent of that name, which is no
\* object, is as it was, and the other entries kept their fields.
C34_Witness ==
    /\ ret.op = "apply_updates_to_preset" /\ ret.ok
    /\ Len(ret.updates) = 2 /\ ret.updates[2].model = "gemini"
    /\ contains_key(PresetDoc(fs, <<"p">>), "theme")
    /\ PresetDoc(fs, <<"p">>).fields["categories"].fields["quick"]
           = Object(("model" :> String("gemini")) @@ ("variant" :> String("max")))
    /\ PresetDoc(fs, <<"p">>).fields["agents"].fields["quick"] = String("gpt")
    /\ PresetDoc(fs, <<"p">>).fields["theme"] = String("dark")

\* C35 (frame of the pointer): the file active_preset changes only in a step of
\* load_preset, set_active_preset, apply_builtin_preset, or accept_external_changes when
\* the pointer held a legacy identifier; save_preset, update_preset,
\* apply_updates_to_preset, delete_preset, import_config, restore_from_backup and the
\* writes of the canonical file leave it as it is, and after delete_preset of the
\* active preset get_active_preset still returns its name.
C35_PointerFrame ==
    [][/\ FileAt(fs', get_active_preset_path) # FileAt(fs, get_active_preset_path)
          => \/ ret'.op \in {"load_preset", "set_active_preset", "apply_builtin_preset"}
             \/ /\ ret'.op = "accept_external_changes"
                /\ get_active_preset(fs) # None
                /\ is_legacy(get_active_preset(fs)[1])
       /\ (/\ ret'.op = "delete_preset" /\ ret'.ok
           /\ get_active_preset(fs) = Some(ret'.name))
          => get_active_preset(fs') = Some(ret'.name)]_vars

\* The active preset was deleted: its file is gone and the pointer still names it.
C35_Witness ==
    /\ ret.op = "delete_preset" /\ ret.ok
    /\ ret.name = <<"p">>
    /\ get_active_preset(fs) = Some(<<"p">>)
    /\ ~exists(fs, get_preset_path(<<"p">>))

\* C36 (bounded history): after every successful import_config, restore_from_backup,
\* export_config_with_history with record_history = true and set_max_backup_records,
\* the backup directory holds at most get_max_backup_records() managed files, whatever
\* it held before.
C36_HistoryBounded ==
    [][(/\ ret'.ok
        /\ \/ ret'.op \in {"import_config", "restore_from_backup", "set_max_backup_records"}
           \/ ret'.op = "export_config_with_history" /\ ret'.value = Bool(TRUE))
       => Cardinality(ManagedBackups(fs')) <= get_max_backup_records(fs')]_vars

\* A restore has succeeded and the directory holds exactly as many managed backups as
\* the limit, 2, allows.
C36_Witness ==
    /\ ret.op = "restore_from_backup" /\ ret.ok
    /\ get_max_backup_records(fs) = 2
    /\ Cardinality(ManagedBackups(fs)) = 2

\* The canonical file holds a document that passes validate_config.
CanonicalValid(f) ==
    /\ read_omo_config(f).ok
    /\ validate_config(read_omo_config(f).value).ok

\* C37 (validity preserved), as stated: from a valid canonical document and files
\* written by this tool, the canonical document passes validate_config after every
\* sequence of write_omo_config, update_agent_model, update_agents_batch,
\* merge_and_save, save_preset, apply_updates_to_preset, load_preset, import_config and
\* restore_from_backup.
C37_ValidityPreserved == CanonicalValid(fs)

\* The preset p, when there is one, holds a document that passes validate_config.
PresetsValid(f) ==
    exists(f, get_preset_path(<<"p">>))
        => /\ from_str(f[get_preset_path(<<"p">>)].text).ok
           /\ validate_config(PresetDoc(f, <<"p">>)).ok

\* C37, for the names save_preset accepts: a step of one of these commands that is
\* not a load_preset of a name with a path separator leaves a valid canonical document
\* and a valid preset valid.
C37_ValidityPreservedOfPresets ==
    [][(/\ CanonicalValid(fs) /\ PresetsValid(fs)
        /\ ~(ret'.op = "load_preset" /\ contains_separator(ret'.name)))
       => (CanonicalValid(fs') /\ PresetsValid(fs'))]_vars
\* C38 (empty diff): compare_configs(a, b) returns no change only if a equals b.
C38_EmptyOnlyIfEqual ==
    [][(ret'.op = "compare_configs" /\ changes' = <<>>) => old_config = new_config]_vars

\* Two equal documents with nested objects were compared and no change was reported.
C38_Witness ==
    /\ ret.op = "compare_configs"
    /\ changes = <<>>
    /\ old_config = DocA /\ new_config = DocA

\* C39 (the merge keeps new): for all documents old and new,
\* compare_configs(new, merge_configs(old, new)) holds changes of type "added" only, and
\* merge_configs(old, new) passes validate_config whenever new passes it.
C39_MergeKeepsNew ==
    [][ret'.op = "merge_configs" =>
          /\ \A i \in DOMAIN compare_configs(new_config, merged') :
                compare_configs(new_config, merged')[i].change_type = "added"
          /\ validate_config(new_config).ok => validate_config(merged').ok]_vars

\* Two valid documents that differ in every tree were merged: the result is valid and
\* differs from new by additions.
C39_Witness ==
    /\ ret.op = "merge_configs"
    /\ old_config = DocA /\ new_config = DocB
    /\ validate_config(merged).ok
    /\ compare_configs(new_config, merged) # <<>>

\* What merge_and_save is to write: the snapshot's document merged with the current one,
\* or the current one when no snapshot loads.
MergedWithSnapshot(f) ==
    LET merged_of(current_config, snapshot) ==
            IF snapshot # None
            THEN merge_configs(snapshot[1].config, current_config)
            ELSE current_config
    IN  merged_of(read_omo_config(f).value, load_config_snapshot(f))

\* C40 (merge_and_save fails closed and is idempotent): a successful merge_and_save
\* returns and writes merge_configs(snapshot, current), or current when no snapshot
\* loads, and that document passes validate_config; when the merged document fails
\* validate_config the call fails; a failed call leaves the canonical file as it was;
\* and a merge_and_save that follows a successful one, nothing in between, leaves the
\* canonical document equal to the first one's result.
C40_MergeAndSave ==
    [][ret'.op = "merge_and_save" =>
          /\ ret'.ok => /\ read_omo_config(fs).ok
                        /\ ret'.value = MergedWithSnapshot(fs)
                        /\ validate_config(ret'.value).ok
                        /\ read_omo_config(fs') = OkValue(ret'.value)
          /\ (read_omo_config(fs).ok /\ ~validate_config(MergedWithSnapshot(fs)).ok)
                => ~ret'.ok
          /\ ~ret'.ok => fs' = fs
          /\ (ret.op = "merge_and_save" /\ ret.ok)
                => read_omo_config(fs') = OkValue(ret.value)]_vars

\* merge_and_save has succeeded twice in a row, and what it wrote holds a key of the
\* snapshot's document beside the keys of the document found in the canonical file.
C40_Witness ==
    /\ ret.op = "merge_and_save" /\ ret.ok
    /\ exists(fs, BakPath)
    /\ read_omo_config(fs) = OkValue(ret.value)
    /\ from_str(read_to_string(fs, BakPath)).value = ret.value
    /\ contains_key(ret.value, "list")
    /\ contains_key(ret.value.fields["categories"], "quick")

====
